---- MODULE Spec2Model ----
(***************************************************************************)
(* State-machine model of the Drawback real-time gateway (DrawGateway):    *)
(* socket registry, shared identity binding (Redis hash), room membership  *)
(* and presence events, stroke/clear rate limiting and the broadcast relay.*)
(*                                                                         *)
(* Every `await` of a handler is a suspension point: the code up to and    *)
(* including the awaited call is one action, the code after it another.    *)
(* A call to the socket.io adapter (client.join / client.leave) takes      *)
(* effect when it is called.  A Redis command is queued on the issuing     *)
(* process's client (ioredis pipelines in FIFO order); the store executes  *)
(* the head of any process's queue and the awaiting handler resumes.       *)
(***************************************************************************)
EXTENDS Integers, Sequences, FiniteSets, TLC

VARIABLES
  redisOn,        \* this.redisClient # null (REDIS_HOST configured)
  redisUp,        \* the Redis server answers (its commands do not fail)
  escaped,        \* handler calls that ended by an exception nobody caught
  procOf,         \* the server process each socket is pinned to
  conn,           \* transport state of each socket: new / open / closed
  socketToUser,   \* socketId -> userId (entry of the owning process's map)
  socketToRoom,   \* socketId -> room
  strokeRateMap,  \* socketId -> {count, windowStart}
  clearRateMap,   \* socketId -> {count, windowStart}
  rooms,          \* adapter rooms: room -> socket ids in insertion order
  binding,        \* Redis hash drawback:user-socket: userId -> socketId
  redisQ,         \* per process: commands sent to Redis and not yet executed
  connH,          \* handleConnection position of each socket
  discH,          \* handleDisconnect position of each socket
  joinH,          \* in-flight joinChat handlers of each socket
  leaveH,         \* in-flight leaveChat handler of each socket
  now,            \* Date.now()
  budget,         \* events the clients may still send (strokes, clears: per window)
  out,            \* events emitted by the last step, in emission order
  last,           \* history: the stroke, clear or completed join handled by the last step
  estab,          \* history: what each socket found when it connected / disconnected,
                  \* and the members told of it that its disconnect did not notify
  told,           \* history: presence events a member got about a member
  strokeLog,      \* history: limiter verdicts of the strokes of each window
  clearLog,       \* history: limiter verdicts of the clears of each window
  chatRequestRepository,  \* rows of the chat_requests table: id -> entity
  savedChatsRepository,   \* rows of the saved_chats table: id -> entity
  calls,          \* ChatService calls made so far, each with its position
  writes,         \* history: the saves and removes the table executed
  redis,          \* CacheService.redis # null (REDIS_URL configured)
  redisKeys,      \* the keys the Redis server holds: key -> value and expiry
  mem,            \* CacheService.mem: key -> {value, expiresAt}
  cacheH          \* history: the last completed set or del of each key, and
                  \* the last get with what had completed before it

vars == <<redisOn, redisUp, escaped, procOf, conn, socketToUser, socketToRoom, strokeRateMap,
          clearRateMap, rooms, binding, redisQ, connH, discH, joinH, leaveH,
          now, budget, out, last, estab, told, strokeLog, clearLog,
          chatRequestRepository, savedChatsRepository, calls, writes,
          redis, redisKeys, mem, cacheH>>

----------------------------------------------------------------------------
(* Universe and bounds *)

Conns == {"c1", "c2", "c3"}
Users == {"u1", "u2"}
Procs == {"p1", "p2"}
None  == "none"

\* the identity carried by each socket's (valid) token
UserOf(c) == IF c = "c2" THEN "u2" ELSE "u1"

MaxJoins    == 2    \* chat.join events in a run of Spec
MaxInflight == 2    \* joinChat handlers of one socket suspended together
MaxLeaves   == 1    \* draw.leave events in a run of Spec
RateStrokes == 62   \* draw.stroke events per socket and window in SpecStroke
RateClears  == 7    \* draw.clear events per socket and window in SpecClear
StrokeTicks == 2    \* clock ticks in a run of SpecStroke
ClearTicks  == 11   \* clock ticks in a run of SpecClear
TickMs      == 500  \* milliseconds the clock advances per tick
WatcherEvents == 2  \* strokes, and clears, the watching socket sends in SpecCounters
CacheTicks  == 3    \* ticks of the clock in a run of SpecCache
TtlSeconds  == 1    \* the ttlSeconds the callers of set pass

STROKE_RATE_LIMIT    == 60
STROKE_RATE_WINDOW_MS == 1000
CLEAR_RATE_LIMIT     == 5
CLEAR_RATE_WINDOW_MS == 5000

\* the chat_requests table as the gateway sees it (ChatService is a collaborator)
ChatRequests == [r1 |-> [fromUserId |-> "u1", toUserId |-> "u2", status |-> "ACCEPTED"],
                 r2 |-> [fromUserId |-> "u2", toUserId |-> "u1", status |-> "ACCEPTED"],
                 r3 |-> [fromUserId |-> "u1", toUserId |-> "u2", status |-> "PENDING"],
                 r4 |-> [fromUserId |-> "u3", toUserId |-> "u4", status |-> "ACCEPTED"]]

\* the request ids the clients of Spec send
RequestIds == {"r1", "r2", "r3"}

\* request ids that are denied to every client: an id that is in no row, and
\* the request between two other users
UnknownRequest == "r0"
ForeignRequest == "r4"

buildRoomId(requestId) == "chat:" \o requestId

\* the cache keys and the values the callers of CacheService store
Keys == {"k1", "k2"}
Values == {"a", "b"}

\* JSON.stringify of a string value, and JSON.parse of such a text
JSONstringify(value) == "\"" \o value \o "\""

JSONparse(raw) == CHOOSE value \in Values : JSONstringify(value) = raw

RoomIds == {buildRoomId(r) : r \in RequestIds}

----------------------------------------------------------------------------
(* Events sent to clients *)

BlankMsg == [to |-> None, ev |-> None, userId |-> None, roomId |-> None,
             requestId |-> None, peers |-> <<>>, message |-> None, status |-> 0]

\* client.emit(...): a packet reaches the client only while its socket is open
ClientEmit(cn, m) == IF cn[m.to] = "open" THEN <<m>> ELSE <<>>

\* client.to(room).emit(...): every socket of the room except the sender
BroadcastTargets(rm, cn, room, c) ==
  SelectSeq(rm[room], LAMBDA m : m # c /\ cn[m] = "open")

BroadcastEmit(rm, cn, room, c, m) ==
  [i \in 1..Len(BroadcastTargets(rm, cn, room, c)) |->
      [m EXCEPT !.to = BroadcastTargets(rm, cn, room, c)[i]]]

ForbiddenException(msg)    == [message |-> msg, status |-> 403]
NotFoundException(msg)     == [message |-> msg, status |-> 404]

\* emitError(client, err): an error event to the client; a catch that only
\* logged would send nothing
emitError_LogOnly(cn, c, err) == <<>>

emitError(cn, c, err) ==
  ClientEmit(cn, [BlankMsg EXCEPT !.to = c, !.ev = "error",
                                  !.message = err.message, !.status = err.status])

----------------------------------------------------------------------------
(* Helpers *)

Range(s) == {s[i] : i \in 1..Len(s)}

\* a Map keyed by socket id, as used for the two rate maps: new Map(), set, delete
EmptyMap == [k \in {} |-> 0]

MapSet(m, k, v) == [x \in DOMAIN m \cup {k} |-> IF x = k THEN v ELSE m[x]]

MapDelete(m, k) == [x \in DOMAIN m \ {k} |-> m[x]]

Remove(s, c) == SelectSeq(s, LAMBDA m : m # c)

\* adapter.delAll / socket.leave(room)
LeaveRoom(rm, room, c) == [rm EXCEPT ![room] = Remove(@, c)]

\* socket.join(room): a room is a set, a socket is in it once
JoinRoom(rm, room, c) == [rm EXCEPT ![room] = IF c \in Range(@) THEN @ ELSE Append(@, c)]

\* this.socketToUser.get(socketId) evaluated on process p: the map is local
LocalUser(p, s) == IF procOf[s] = p THEN socketToUser[s] ELSE None

RemoveAt(s, i) == [j \in 1..(Len(s) - 1) |-> IF j < i THEN s[j] ELSE s[j + 1]]

Step(op, c, limited) == [op |-> op, c |-> c, limited |-> limited, pre |-> {}]

\* history: a step that is not the handling of a stroke, a clear or a completed join
Quiet == Step("step", None, FALSE)

\* history: c is no longer in a room, so what was told about it is over
Forget(t, c) == [a \in Conns |-> [b \in Conns |->
                   IF a = c \/ b = c THEN 0 ELSE t[a][b]]]

\* history: the sockets of S, other than c, that carry c's identity
Siblings(c, S) == {x \in S : x # c /\ UserOf(x) = UserOf(c)}

\* history: the identities of the open sockets of a room other than c
Identities(rm, cn, room, c) == {UserOf(m) : m \in {x \in Range(rm[room]) : x # c /\ cn[x] = "open"}}

----------------------------------------------------------------------------
(* Initial states *)

NoHandlers == [c \in Conns |-> <<>>]

InitGateway ==
  /\ escaped = {}
  /\ conn = [c \in Conns |-> "new"]
  /\ socketToUser = [c \in Conns |-> None]
  /\ socketToRoom = [c \in Conns |-> None]
  /\ strokeRateMap = EmptyMap
  /\ clearRateMap = EmptyMap
  /\ rooms = [r \in RoomIds |-> <<>>]
  /\ binding = [u \in Users |-> None]
  /\ redisQ = [p \in Procs |-> <<>>]
  /\ connH = [c \in Conns |-> "idle"]
  /\ discH = [c \in Conns |-> "idle"]
  /\ joinH = NoHandlers
  /\ leaveH = NoHandlers
  /\ now = 0
  /\ out = <<>>
  /\ last = Quiet
  /\ estab = [c \in Conns |-> [begunBefore |-> {}, doneBefore |-> {}, doneAtClose |-> {},
                                unnotified |-> {}]]
  /\ told = [a \in Conns |-> [b \in Conns |-> 0]]
  /\ strokeLog = [c \in Conns |-> [start |-> 0, log |-> <<>>, shed |-> FALSE]]
  /\ clearLog = [c \in Conns |-> [start |-> 0, log |-> <<>>, shed |-> FALSE]]
  /\ chatRequestRepository = ChatRequests
  /\ savedChatsRepository = EmptyMap
  /\ calls = <<>>
  /\ writes = <<>>
  /\ redisKeys = [k \in Keys |-> <<>>]
  /\ mem = [k \in Keys |-> <<>>]
  /\ cacheH = [done |-> [k \in Keys |-> [op |-> "none", value |-> None]], got |-> <<>>]

\* onModuleInit: with REDIS_HOST the adapter and the shared hash are in use and
\* sockets may be spread over the workers; without it there is one process
InitConfig ==
  /\ redisOn \in BOOLEAN
  /\ redis = FALSE
  /\ redisUp = TRUE
  /\ procOf \in [Conns -> Procs]
  /\ procOf["c1"] = "p1"
  /\ ~redisOn => \A c \in Conns : procOf[c] = "p1"

\* the single-process mode (REDIS_HOST not set)
InitLocal ==
  /\ redisOn = FALSE
  /\ redis = FALSE
  /\ redisUp = TRUE
  /\ procOf = [c \in Conns |-> "p1"]

\* the clients of the rate-limiter runs: one socket that draws and one that
\* watches; each joins the room once
Drawer == "c1"
Watcher == "c2"
RateConns == {Drawer, Watcher}

\* the chat request both clients of the rate-limiter runs take part in
RateRequest == "r1"

Budget(j, l, s, k, t) == [join |-> j, leave |-> l, stroke |-> s, clear |-> k, tick |-> t]

Init ==
  /\ InitGateway
  /\ InitLocal
  /\ budget = Budget(MaxJoins, MaxLeaves, 0, 0, 0)

InitStroke ==
  /\ InitGateway
  /\ InitLocal
  /\ budget = Budget(Cardinality(RateConns), 0, RateStrokes, 0, StrokeTicks)

InitClear ==
  /\ InitGateway
  /\ InitLocal
  /\ budget = Budget(Cardinality(RateConns), 0, 0, RateClears, ClearTicks)

\* REDIS_HOST is set, the Redis server cannot be reached, and every socket is
\* connected to the one process that is running
InitDegraded ==
  /\ InitGateway
  /\ redisOn = TRUE
  /\ redis = FALSE
  /\ redisUp = FALSE
  /\ procOf = [c \in Conns |-> "p1"]
  /\ budget = Budget(MaxJoins, 0, 0, 0, 0)

InitBinding ==
  /\ InitGateway
  /\ InitConfig
  /\ redisOn
  /\ budget = Budget(0, 0, 0, 0, 0)

----------------------------------------------------------------------------
(* Connection lifecycle and the shared identity binding *)

\* userId is the result of extractUserIdFromToken: the token's subject or null;
\* note is what the history variable last keeps of the step.
\* The socket is connected when handleConnection runs, so the rejection
\* reaches the client before client.disconnect() closes it.
handleConnectionAs(c, userId, note) ==
  /\ conn[c] = "new"
  /\ IF userId = None
       THEN /\ out' = <<[BlankMsg EXCEPT !.to = c, !.ev = "error",
                                         !.message = "Unauthorized"]>>
            /\ conn' = [conn EXCEPT ![c] = "closed"]
            /\ connH' = [connH EXCEPT ![c] = "done"]
            /\ UNCHANGED <<socketToUser, redisQ, estab, discH>>
       ELSE /\ out' = <<>>
            /\ conn' = [conn EXCEPT ![c] = "open"]
            /\ socketToUser' = [socketToUser EXCEPT ![c] = userId]
            /\ estab' = [estab EXCEPT ![c].begunBefore = Siblings(c, {x \in Conns : conn[x] # "new"}),
                                      ![c].doneBefore = Siblings(c, {x \in Conns : connH[x] = "done"})]
            /\ IF redisOn
                 THEN /\ redisQ' = [redisQ EXCEPT ![procOf[c]] = Append(@, <<"hset", c>>)]
                      /\ connH' = [connH EXCEPT ![c] = "hset"]
                 ELSE /\ connH' = [connH EXCEPT ![c] = "done"]
                      /\ UNCHANGED redisQ
            /\ UNCHANGED discH
  /\ last' = note
  /\ UNCHANGED <<redis, redisKeys, mem, cacheH, chatRequestRepository, savedChatsRepository, calls, writes, redisOn, redisUp, escaped, procOf, socketToRoom, strokeRateMap, clearRateMap, rooms,
                 binding, joinH, leaveH, now, budget, told, strokeLog, clearLog>>

handleConnection(c, userId) == handleConnectionAs(c, userId, Quiet)

\* what a handshake can carry as a credential in one of its channels: nothing,
\* the empty string, a value that is not a string, a string that is no JWT, a
\* JWT that has expired, a JWT with a bad signature, a JWT that verifies
\* client.handshake: auth.token (any value the client sent), the Authorization
\* header with 'Bearer ' removed (a string when present), query.token (a
\* string, or an array when the parameter is repeated)
Handshakes ==
  [auth : {"undefined", "empty", "nonstring", "malformed", "expired", "badsignature", "valid"},
   header : {"undefined", "expired", "valid"},
   query : {"undefined", "nonstring", "valid"}]

\* a ?? b ?? c is the first operand that is neither null nor undefined;
\* a || b || c would skip the empty string too
HandshakeToken_SkipEmpty(h) ==
  IF h.auth \notin {"undefined", "empty"} THEN h.auth
  ELSE IF h.header \notin {"undefined", "empty"} THEN h.header
  ELSE h.query

HandshakeToken(h) ==
  IF h.auth # "undefined" THEN h.auth
  ELSE IF h.header # "undefined" THEN h.header
  ELSE h.query

\* jwtService.verify: the payload's subject, or an exception;
\* with ignoreExpiration an expired token would verify as well
JwtVerify_IgnoreExpiration(c, token) ==
  IF token \in {"valid", "expired"} THEN [ok |-> TRUE, sub |-> UserOf(c)]
  ELSE [ok |-> FALSE, sub |-> None]

JwtVerify(c, token) ==
  IF token = "valid" THEN [ok |-> TRUE, sub |-> UserOf(c)] ELSE [ok |-> FALSE, sub |-> None]

\* extractUserIdFromToken accepting whatever subject the token carries,
\* without verification (jwt.decode in place of jwt.verify)
extractUserIdFromToken_Unverified(c, h) ==
  LET token == HandshakeToken(h) IN
    IF token \in {"undefined", "empty"} \/ token = "nonstring"
      THEN None
    ELSE IF token \in {"valid", "expired", "badsignature"} THEN UserOf(c)
    ELSE None

extractUserIdFromToken(c, h) ==
  LET token == HandshakeToken(h) IN
    IF token \in {"undefined", "empty"} \/ token = "nonstring"
      THEN None
    ELSE IF JwtVerify(c, token).ok THEN JwtVerify(c, token).sub
    ELSE None

\* a socket connects with handshake h
handshake(c, h) == handleConnection(c, extractUserIdFromToken(c, h))

\* the handshakes that fail authentication, for whatever reason
Rejected == {h \in Handshakes : HandshakeToken(h) # "valid"}

\* the same step, with the handshake of an accepted socket kept in last
HandshakeName(h) == "handshake:" \o h.auth \o "/" \o h.header \o "/" \o h.query

handshakeNoted(c, h) ==
  handleConnectionAs(c, extractUserIdFromToken(c, h),
                     IF extractUserIdFromToken(c, h) = None THEN Quiet
                     ELSE [Quiet EXCEPT !.c = c, !.op = HandshakeName(h)])

\* Redis executes HSET drawback:user-socket userId socketId; handleConnection ends
hsetDone(p) ==
  /\ redisUp
  /\ redisQ[p] # <<>>
  /\ Head(redisQ[p])[1] = "hset"
  /\ LET c == Head(redisQ[p])[2] IN
       /\ binding' = [binding EXCEPT ![UserOf(c)] = c]
       /\ connH' = [connH EXCEPT ![c] = "done"]
       /\ last' = Quiet
  /\ redisQ' = [redisQ EXCEPT ![p] = Tail(@)]
  /\ out' = <<>>
  /\ UNCHANGED <<redis, redisKeys, mem, cacheH, chatRequestRepository, savedChatsRepository, calls, writes, redisOn, redisUp, escaped, procOf, conn, socketToUser, socketToRoom, strokeRateMap,
                 clearRateMap, rooms, discH, joinH, leaveH, now, budget, estab, told,
                 strokeLog, clearLog>>

\* the transport has closed the socket (it has left every room) and calls
\* handleDisconnect, which runs up to its first await; for a socket that
\* handleConnection rejected, the socket was closed by client.disconnect()
handleDisconnect(c) ==
  /\ \/ conn[c] = "open"
     \/ conn[c] = "closed" /\ discH[c] = "idle"
  /\ conn' = [conn EXCEPT ![c] = "closed"]
  /\ rooms' = [r \in DOMAIN rooms |-> Remove(rooms[r], c)]
  /\ LET userId == socketToUser[c]
         room == socketToRoom[c]
     IN IF userId = None
          THEN /\ out' = <<>>
               /\ discH' = [discH EXCEPT ![c] = "done"]
               /\ UNCHANGED <<socketToUser, socketToRoom, strokeRateMap, clearRateMap,
                              redisQ>>
          ELSE /\ out' = IF room # None
                           THEN BroadcastEmit(rooms', conn', room, c,
                                  [BlankMsg EXCEPT !.ev = "draw.peer.left", !.userId = userId])
                           ELSE <<>>
               /\ socketToRoom' = [socketToRoom EXCEPT ![c] = None]
               /\ socketToUser' = [socketToUser EXCEPT ![c] = None]
               /\ strokeRateMap' = MapDelete(strokeRateMap, c)
               /\ clearRateMap' = MapDelete(clearRateMap, c)
               /\ IF redisOn
                    THEN /\ redisQ' = [redisQ EXCEPT ![procOf[c]] = Append(@, <<"hget", c>>)]
                         /\ discH' = [discH EXCEPT ![c] = "hget"]
                    ELSE /\ discH' = [discH EXCEPT ![c] = "done"]
                         /\ UNCHANGED redisQ
  /\ estab' = [estab EXCEPT
       ![c].doneAtClose =
          Siblings(c, {x \in Conns : conn[x] = "open" /\ connH[x] = "done"}),
       ![c].unnotified =
          {b \in Conns \ {c} :
             /\ conn[b] = "open" /\ told[b][c] > 0
             /\ ~\E k \in 1..Len(out') :
                   out'[k].to = b /\ out'[k].ev = "draw.peer.left"}]
  /\ told' = Forget(told, c)
  /\ last' = Quiet
  /\ UNCHANGED <<redis, redisKeys, mem, cacheH, chatRequestRepository, savedChatsRepository, calls, writes, redisOn, redisUp, escaped, procOf, binding, connH, joinH, leaveH, now, budget,
                 strokeLog, clearLog>>

\* hgetDone without the comparison: HDEL is sent whatever HGET returned
hgetDone_NoCompare(p) ==
  /\ redisUp
  /\ redisQ[p] # <<>>
  /\ Head(redisQ[p])[1] = "hget"
  /\ LET c == Head(redisQ[p])[2] IN
       /\ redisQ' = [redisQ EXCEPT ![p] = Append(Tail(@), <<"hdel", c>>)]
       /\ discH' = [discH EXCEPT ![c] = "hdel"]
       /\ last' = Quiet
  /\ out' = <<>>
  /\ UNCHANGED <<redis, redisKeys, mem, cacheH, chatRequestRepository, savedChatsRepository, calls, writes, redisOn, redisUp, escaped, procOf, conn, socketToUser, socketToRoom, strokeRateMap,
                 clearRateMap, rooms, binding, connH, joinH, leaveH, now, budget,
                 estab, told, strokeLog, clearLog>>

\* Redis executes HGET; handleDisconnect compares and, on a match, sends HDEL
hgetDone(p) ==
  /\ redisUp
  /\ redisQ[p] # <<>>
  /\ Head(redisQ[p])[1] = "hget"
  /\ LET c == Head(redisQ[p])[2]
         current == binding[UserOf(c)]
     IN /\ IF current = c
             THEN /\ redisQ' = [redisQ EXCEPT ![p] = Append(Tail(@), <<"hdel", c>>)]
                  /\ discH' = [discH EXCEPT ![c] = "hdel"]
             ELSE /\ redisQ' = [redisQ EXCEPT ![p] = Tail(@)]
                  /\ discH' = [discH EXCEPT ![c] = "done"]
        /\ last' = Quiet
  /\ out' = <<>>
  /\ UNCHANGED <<redis, redisKeys, mem, cacheH, chatRequestRepository, savedChatsRepository, calls, writes, redisOn, redisUp, escaped, procOf, conn, socketToUser, socketToRoom, strokeRateMap,
                 clearRateMap, rooms, binding, connH, joinH, leaveH, now, budget,
                 estab, told, strokeLog, clearLog>>

\* Redis executes HDEL drawback:user-socket userId; handleDisconnect ends
hdelDone(p) ==
  /\ redisUp
  /\ redisQ[p] # <<>>
  /\ Head(redisQ[p])[1] = "hdel"
  /\ LET c == Head(redisQ[p])[2] IN
       /\ binding' = [binding EXCEPT ![UserOf(c)] = None]
       /\ discH' = [discH EXCEPT ![c] = "done"]
       /\ last' = Quiet
  /\ redisQ' = [redisQ EXCEPT ![p] = Tail(@)]
  /\ out' = <<>>
  /\ UNCHANGED <<redis, redisKeys, mem, cacheH, chatRequestRepository, savedChatsRepository, calls, writes, redisOn, redisUp, escaped, procOf, conn, socketToUser, socketToRoom, strokeRateMap,
                 clearRateMap, rooms, connH, joinH, leaveH, now, budget, estab, told,
                 strokeLog, clearLog>>

\* Redis is unreachable and the HSET is rejected: `await hset` throws inside
\* handleConnection, which has no try/catch; the socket stays registered
hsetFailed(p) ==
  /\ ~redisUp
  /\ redisQ[p] # <<>>
  /\ Head(redisQ[p])[1] = "hset"
  /\ LET c == Head(redisQ[p])[2] IN
       /\ connH' = [connH EXCEPT ![c] = "done"]
       /\ escaped' = escaped \cup {<<"handleConnection", c>>}
  /\ redisQ' = [redisQ EXCEPT ![p] = Tail(@)]
  /\ out' = <<>>
  /\ last' = Quiet
  /\ UNCHANGED <<redis, redisKeys, mem, cacheH, chatRequestRepository, savedChatsRepository, calls, writes, redisOn, redisUp, procOf, conn, socketToUser, socketToRoom, strokeRateMap,
                 clearRateMap, rooms, binding, discH, joinH, leaveH, now, budget, estab,
                 told, strokeLog, clearLog>>

\* Redis is unreachable and the HGET is rejected: `await hget` throws inside
\* handleDisconnect, which has no try/catch
hgetFailed(p) ==
  /\ ~redisUp
  /\ redisQ[p] # <<>>
  /\ Head(redisQ[p])[1] = "hget"
  /\ LET c == Head(redisQ[p])[2] IN
       /\ discH' = [discH EXCEPT ![c] = "done"]
       /\ escaped' = escaped \cup {<<"handleDisconnect", c>>}
  /\ redisQ' = [redisQ EXCEPT ![p] = Tail(@)]
  /\ out' = <<>>
  /\ last' = Quiet
  /\ UNCHANGED <<redis, redisKeys, mem, cacheH, chatRequestRepository, savedChatsRepository, calls, writes, redisOn, redisUp, procOf, conn, socketToUser, socketToRoom, strokeRateMap,
                 clearRateMap, rooms, binding, connH, joinH, leaveH, now, budget, estab,
                 told, strokeLog, clearLog>>

----------------------------------------------------------------------------
(* Room membership and presence *)

getAuthenticatedUserId(c) == socketToUser[c]

\* getAcceptedRoomForUser without the check of the request's status
getAcceptedRoomForUser_AnyStatus(requestId, userId) ==
  IF requestId \notin DOMAIN ChatRequests
    THEN [ok |-> FALSE, roomId |-> None, err |-> NotFoundException("Chat request not found")]
  ELSE IF ChatRequests[requestId].fromUserId # userId /\ ChatRequests[requestId].toUserId # userId
    THEN [ok |-> FALSE, roomId |-> None,
          err |-> ForbiddenException("You are not part of this chat request")]
  ELSE [ok |-> TRUE, roomId |-> buildRoomId(requestId), err |-> [message |-> None, status |-> 0]]

\* ChatService.getAcceptedRoomForUser: the room id, or the exception thrown
getAcceptedRoomForUser(requestId, userId) ==
  IF requestId \notin DOMAIN ChatRequests
    THEN [ok |-> FALSE, roomId |-> None, err |-> NotFoundException("Chat request not found")]
  ELSE IF ChatRequests[requestId].fromUserId # userId /\ ChatRequests[requestId].toUserId # userId
    THEN [ok |-> FALSE, roomId |-> None,
          err |-> ForbiddenException("You are not part of this chat request")]
  ELSE IF ChatRequests[requestId].status # "ACCEPTED"
    THEN [ok |-> FALSE, roomId |-> None, err |-> ForbiddenException("Chat request is not accepted")]
  ELSE [ok |-> TRUE, roomId |-> buildRoomId(requestId), err |-> [message |-> None, status |-> 0]]

\* client.join(room) of socket c.  On a socket that is already closed the
\* outcome depends on the socket.io release: the call is ignored, or the id is
\* added to the adapter room all the same.
SocketJoin(rm, room, c) ==
  IF conn[c] = "open" THEN {JoinRoom(rm, room, c)} ELSE {rm, JoinRoom(rm, room, c)}

\* chat.join arrives: getAuthenticatedUserId, then await getAcceptedRoomForUser
joinChat(c, requestId) ==
  /\ conn[c] = "open"
  /\ budget.join > 0
  /\ Len(joinH[c]) < MaxInflight
  /\ budget' = [budget EXCEPT !.join = @ - 1]
  /\ IF getAuthenticatedUserId(c) = None
       THEN /\ out' = emitError(conn, c, [message |-> "Socket not authenticated", status |-> 401])
            /\ UNCHANGED joinH
       ELSE /\ out' = <<>>
            /\ joinH' = [joinH EXCEPT ![c] = Append(@,
                 [pc |-> "auth", requestId |-> requestId, userId |-> getAuthenticatedUserId(c),
                  roomId |-> None, prevRoom |-> None, roomSockets |-> <<>>, pre |-> {}])]
  /\ last' = Quiet
  /\ UNCHANGED <<redis, redisKeys, mem, cacheH, chatRequestRepository, savedChatsRepository, calls, writes, redisOn, redisUp, escaped, procOf, conn, socketToUser, socketToRoom, strokeRateMap,
                 clearRateMap, rooms, binding, redisQ, connH, discH, leaveH, now,
                 estab, told, strokeLog, clearLog>>

\* getAcceptedRoomForUser returns or throws; on success the previous room is
\* read and client.leave(prevRoom) or client.join(roomId) is called
joinChatResolved(c, i) ==
  /\ i \in 1..Len(joinH[c])
  /\ joinH[c][i].pc = "auth"
  /\ LET h == joinH[c][i]
         r == getAcceptedRoomForUser(h.requestId, h.userId)
         prevRoom == socketToRoom[c]
     IN IF ~r.ok
          THEN /\ out' = emitError(conn, c, r.err)
               /\ joinH' = [joinH EXCEPT ![c] = RemoveAt(@, i)]
               /\ last' = Quiet
               /\ UNCHANGED <<rooms, told>>
          ELSE IF prevRoom # None /\ prevRoom # r.roomId
            THEN /\ rooms' = LeaveRoom(rooms, prevRoom, c)
                 /\ told' = Forget(told, c)
                 /\ joinH' = [joinH EXCEPT ![c][i] =
                      [h EXCEPT !.pc = "leave", !.roomId = r.roomId, !.prevRoom = prevRoom]]
                 /\ out' = <<>>
                 /\ last' = Quiet
            ELSE /\ rooms' \in SocketJoin(rooms, r.roomId, c)
                 /\ joinH' = [joinH EXCEPT ![c][i] =
                      [h EXCEPT !.pc = "join", !.roomId = r.roomId, !.prevRoom = prevRoom,
                                !.pre = Identities(rooms, conn, r.roomId, c)]]
                 /\ out' = <<>>
                 /\ last' = Quiet
                 /\ UNCHANGED told
  /\ UNCHANGED <<redis, redisKeys, mem, cacheH, chatRequestRepository, savedChatsRepository, calls, writes, redisOn, redisUp, escaped, procOf, conn, socketToUser, socketToRoom, strokeRateMap,
                 clearRateMap, binding, redisQ, connH, discH, leaveH, now, budget,
                 estab, strokeLog, clearLog>>

\* client.leave(prevRoom) has returned: draw.peer.left to the previous room,
\* then client.join(roomId) is called
joinChatLeft(c, i) ==
  /\ i \in 1..Len(joinH[c])
  /\ joinH[c][i].pc = "leave"
  /\ LET h == joinH[c][i] IN
       /\ out' = BroadcastEmit(rooms, conn, h.prevRoom, c,
                   [BlankMsg EXCEPT !.ev = "draw.peer.left", !.userId = h.userId])
       /\ rooms' \in SocketJoin(rooms, h.roomId, c)
       /\ joinH' = [joinH EXCEPT ![c][i] =
            [h EXCEPT !.pc = "join", !.pre = Identities(rooms, conn, h.roomId, c)]]
  /\ last' = Quiet
  /\ UNCHANGED <<redis, redisKeys, mem, cacheH, chatRequestRepository, savedChatsRepository, calls, writes, redisOn, redisUp, escaped, procOf, conn, socketToUser, socketToRoom, strokeRateMap,
                 clearRateMap, binding, redisQ, connH, discH, leaveH, now, budget,
                 estab, told, strokeLog, clearLog>>

\* client.join(roomId) has returned: socketToRoom.set, then
\* server.in(roomId).allSockets() is called
joinChatJoined(c, i) ==
  /\ i \in 1..Len(joinH[c])
  /\ joinH[c][i].pc = "join"
  /\ LET h == joinH[c][i] IN
       /\ socketToRoom' = [socketToRoom EXCEPT ![c] = h.roomId]
       /\ joinH' = [joinH EXCEPT ![c][i] =
            [h EXCEPT !.pc = "sockets", !.roomSockets = rooms[h.roomId]]]
  /\ out' = <<>>
  /\ last' = Quiet
  /\ UNCHANGED <<redis, redisKeys, mem, cacheH, chatRequestRepository, savedChatsRepository, calls, writes, redisOn, redisUp, escaped, procOf, conn, socketToUser, strokeRateMap, clearRateMap,
                 rooms, binding, redisQ, connH, discH, leaveH, now, budget, estab,
                 told, strokeLog, clearLog>>

\* the loop over roomSockets: ids of the sockets whose user the local map knows
PeerSockets(c, roomSockets) ==
  SelectSeq(roomSockets, LAMBDA s : s # c /\ LocalUser(procOf[c], s) # None)

\* Peers as before the presence fix: the joiner is told of nobody
Peers_NotCollected(c, roomSockets) == <<>>

Peers(c, roomSockets) ==
  [k \in 1..Len(PeerSockets(c, roomSockets)) |->
      LocalUser(procOf[c], PeerSockets(c, roomSockets)[k])]

\* allSockets() has returned: peers are collected, chat.joined goes to the
\* joiner and draw.peer.joined to the rest of the room
joinChatSockets(c, i) ==
  /\ redisOn => redisUp
  /\ i \in 1..Len(joinH[c])
  /\ joinH[c][i].pc = "sockets"
  /\ LET h == joinH[c][i]
         peers == Peers(c, h.roomSockets)
         joined == ClientEmit(conn, [BlankMsg EXCEPT !.to = c, !.ev = "chat.joined",
                      !.roomId = h.roomId, !.requestId = h.requestId, !.peers = peers])
         peerJoined == BroadcastEmit(rooms, conn, h.roomId, c,
                         [BlankMsg EXCEPT !.ev = "draw.peer.joined", !.userId = h.userId])
     IN /\ out' = joined \o peerJoined
        /\ told' = [a \in Conns |-> [b \in Conns |->
              told[a][b]
              + (IF a = c /\ joined # <<>> /\ b \in Range(PeerSockets(c, h.roomSockets))
                   THEN 1 ELSE 0)
              + (IF b = c /\ a \in {peerJoined[k].to : k \in 1..Len(peerJoined)}
                   THEN 1 ELSE 0)]]
        /\ last' = [Step("chat.joined", c, FALSE) EXCEPT !.pre = h.pre]
  /\ joinH' = [joinH EXCEPT ![c] = RemoveAt(@, i)]
  /\ UNCHANGED <<redis, redisKeys, mem, cacheH, chatRequestRepository, savedChatsRepository, calls, writes, redisOn, redisUp, escaped, procOf, conn, socketToUser, socketToRoom, strokeRateMap,
                 clearRateMap, rooms, binding, redisQ, connH, discH, leaveH, now,
                 budget, estab, strokeLog, clearLog>>

\* the Redis adapter cannot ask the other processes for their sockets:
\* allSockets() rejects, the catch of joinChat reports it (an Error that is no
\* HttpException: status 500) and the handler ends with the socket in the room
\* and no presence event sent
joinChatSocketsFailed(c, i) ==
  /\ redisOn /\ ~redisUp
  /\ i \in 1..Len(joinH[c])
  /\ joinH[c][i].pc = "sockets"
  /\ out' = emitError(conn, c, [message |-> "allSockets failed", status |-> 500])
  /\ joinH' = [joinH EXCEPT ![c] = RemoveAt(@, i)]
  /\ last' = Quiet
  /\ UNCHANGED <<redis, redisKeys, mem, cacheH, chatRequestRepository, savedChatsRepository, calls, writes, redisOn, redisUp, escaped, procOf, conn, socketToUser, socketToRoom, strokeRateMap,
                 clearRateMap, rooms, binding, redisQ, connH, discH, leaveH, now,
                 budget, estab, told, strokeLog, clearLog>>

\* draw.leave arrives: draw.peer.left to the room, then await client.leave(room)
leaveChat(c) ==
  /\ conn[c] = "open"
  /\ budget.leave > 0
  /\ budget' = [budget EXCEPT !.leave = @ - 1]
  /\ LET userId == socketToUser[c]
         room == socketToRoom[c]
     IN IF room # None
          THEN /\ out' = BroadcastEmit(rooms, conn, room, c,
                           [BlankMsg EXCEPT !.ev = "draw.peer.left", !.userId = userId])
               /\ rooms' = LeaveRoom(rooms, room, c)
               /\ told' = Forget(told, c)
               /\ leaveH' = [leaveH EXCEPT ![c] = Append(@, [room |-> room])]
          ELSE /\ out' = ClientEmit(conn, [BlankMsg EXCEPT !.to = c, !.ev = "draw.left"])
               /\ UNCHANGED <<rooms, told, leaveH>>
  /\ last' = Quiet
  /\ UNCHANGED <<redis, redisKeys, mem, cacheH, chatRequestRepository, savedChatsRepository, calls, writes, redisOn, redisUp, escaped, procOf, conn, socketToUser, socketToRoom, strokeRateMap,
                 clearRateMap, binding, redisQ, connH, discH, joinH, now, estab,
                 strokeLog, clearLog>>

\* client.leave(room) has returned: socketToRoom.delete, then draw.left
leaveChatLeft(c, i) ==
  /\ i \in 1..Len(leaveH[c])
  /\ socketToRoom' = [socketToRoom EXCEPT ![c] = None]
  /\ out' = ClientEmit(conn, [BlankMsg EXCEPT !.to = c, !.ev = "draw.left"])
  /\ leaveH' = [leaveH EXCEPT ![c] = RemoveAt(@, i)]
  /\ last' = Quiet
  /\ UNCHANGED <<redis, redisKeys, mem, cacheH, chatRequestRepository, savedChatsRepository, calls, writes, redisOn, redisUp, escaped, procOf, conn, socketToUser, strokeRateMap, clearRateMap,
                 rooms, binding, redisQ, connH, discH, joinH, now, budget, estab,
                 told, strokeLog, clearLog>>

----------------------------------------------------------------------------
(* Rate limiting and the broadcast relay *)

\* this.xRateMap.get(socketId) ?? { count: 0, windowStart: now }
RateEntry(map, c) == IF c \in DOMAIN map THEN map[c] ELSE [count |-> 0, windowStart |-> now]

\* the entry that isStrokeRateLimited stores; a limiter that stopped counting
\* once over the threshold would leave the counter where it was
StrokeRateNext_Saturating(c) ==
  LET entry == RateEntry(strokeRateMap, c) IN
    IF now - entry.windowStart >= STROKE_RATE_WINDOW_MS
      THEN [count |-> 1, windowStart |-> now]
      ELSE IF entry.count > STROKE_RATE_LIMIT
        THEN entry
        ELSE [entry EXCEPT !.count = @ + 1]

StrokeRateNext(c) ==
  LET entry == RateEntry(strokeRateMap, c) IN
    IF now - entry.windowStart >= STROKE_RATE_WINDOW_MS
      THEN [count |-> 1, windowStart |-> now]
      ELSE [entry EXCEPT !.count = @ + 1]

\* isStrokeRateLimited with the threshold compared by >= instead of >
isStrokeRateLimited_OffByOne(c) ==
  LET entry == RateEntry(strokeRateMap, c) IN
    IF now - entry.windowStart >= STROKE_RATE_WINDOW_MS
      THEN FALSE
      ELSE entry.count + 1 >= STROKE_RATE_LIMIT

\* the value that isStrokeRateLimited returns
isStrokeRateLimited(c) ==
  LET entry == RateEntry(strokeRateMap, c) IN
    IF now - entry.windowStart >= STROKE_RATE_WINDOW_MS
      THEN FALSE
      ELSE entry.count + 1 > STROKE_RATE_LIMIT

\* the entry that isClearRateLimited stores; a limiter with windows aligned to
\* the first one would start the new window where the old one ended
ClearRateNext_AlignedWindow(c) ==
  LET entry == RateEntry(clearRateMap, c) IN
    IF now - entry.windowStart >= CLEAR_RATE_WINDOW_MS
      THEN [count |-> 1, windowStart |-> entry.windowStart + CLEAR_RATE_WINDOW_MS]
      ELSE [entry EXCEPT !.count = @ + 1]

ClearRateNext(c) ==
  LET entry == RateEntry(clearRateMap, c) IN
    IF now - entry.windowStart >= CLEAR_RATE_WINDOW_MS
      THEN [count |-> 1, windowStart |-> now]
      ELSE [entry EXCEPT !.count = @ + 1]

\* the value that isClearRateLimited returns; counting clears on the stroke
\* counter would make the two budgets one
isClearRateLimited_SharedCounter(c) ==
  LET entry == RateEntry(strokeRateMap, c) IN
    IF now - entry.windowStart >= CLEAR_RATE_WINDOW_MS
      THEN FALSE
      ELSE entry.count + 1 > CLEAR_RATE_LIMIT

isClearRateLimited(c) ==
  LET entry == RateEntry(clearRateMap, c) IN
    IF now - entry.windowStart >= CLEAR_RATE_WINDOW_MS
      THEN FALSE
      ELSE entry.count + 1 > CLEAR_RATE_LIMIT

\* history: the fixed window an event at time `now` falls in, and its verdict.
\* A window opens with the first event and lasts `window` milliseconds; the
\* next event after it has elapsed opens the next one; shed tells whether an
\* event of the window before was refused.
LogEvent(l, window, admitted) ==
  IF l.log = <<>> \/ now - l.start >= window
    THEN [start |-> now, log |-> <<admitted>>,
          shed |-> \E i \in 1..Len(l.log) : ~l.log[i]]
    ELSE [l EXCEPT !.log = Append(@, admitted)]

\* drawStrokeEmits reporting the drop to the sender, as clearCanvas does
drawStrokeEmits_Notify(c, requestId, limited) ==
  LET room == socketToRoom[c] IN
    IF limited
      THEN emitError(conn, c, ForbiddenException("Too many stroke events"))
    ELSE IF room = None
      THEN emitError(conn, c, ForbiddenException("Not in a room"))
    ELSE BroadcastEmit(rooms, conn, room, c,
           [BlankMsg EXCEPT !.ev = "draw.stroke", !.requestId = requestId])

\* drawStrokeEmits returning without a word when the socket has no room
drawStrokeEmits_NoRoomSilent(c, requestId, limited) ==
  LET room == socketToRoom[c] IN
    IF limited \/ room = None
      THEN <<>>
    ELSE BroadcastEmit(rooms, conn, room, c,
           [BlankMsg EXCEPT !.ev = "draw.stroke", !.requestId = requestId])

\* drawStrokeEmits relaying to the room that the payload's requestId names
drawStrokeEmits_PayloadRoom(c, requestId, limited) ==
  LET room == socketToRoom[c] IN
    IF limited
      THEN <<>>
    ELSE IF room = None
      THEN emitError(conn, c, ForbiddenException("Not in a room"))
    ELSE BroadcastEmit(rooms, conn, buildRoomId(requestId), c,
           [BlankMsg EXCEPT !.ev = "draw.stroke", !.requestId = requestId])

\* history: the number of events handled so far in the window that is open now
WindowCount(l, window) ==
  IF l.log = <<>> \/ now - l.start >= window THEN 0 ELSE Len(l.log)

\* what drawStroke emits once the limiter has answered `limited`
drawStrokeEmits(c, requestId, limited) ==
  LET room == socketToRoom[c] IN
    IF limited
      THEN <<>>
    ELSE IF room = None
      THEN emitError(conn, c, ForbiddenException("Not in a room"))
    ELSE BroadcastEmit(rooms, conn, room, c,
           [BlankMsg EXCEPT !.ev = "draw.stroke", !.requestId = requestId])

\* draw.stroke arrives (a client sends at most budget.stroke of them per window)
drawStroke(c, requestId) ==
  /\ conn[c] = "open"
  /\ WindowCount(strokeLog[c], STROKE_RATE_WINDOW_MS) < budget.stroke
  /\ strokeRateMap' = MapSet(strokeRateMap, c, StrokeRateNext(c))
  /\ strokeLog' = [strokeLog EXCEPT ![c] =
                     LogEvent(@, STROKE_RATE_WINDOW_MS, ~isStrokeRateLimited(c))]
  /\ last' = Step("draw.stroke", c, isStrokeRateLimited(c))
  /\ out' = drawStrokeEmits(c, requestId, isStrokeRateLimited(c))
  /\ UNCHANGED <<redis, redisKeys, mem, cacheH, chatRequestRepository, savedChatsRepository, calls, writes, redisOn, redisUp, escaped, procOf, conn, socketToUser, socketToRoom, clearRateMap,
                 rooms, binding, redisQ, connH, discH, joinH, leaveH, now, budget,
                 estab, told, clearLog>>

\* clearCanvasEmits dropping the excess clear silently, as drawStroke does
clearCanvasEmits_Silent(c, requestId, limited) ==
  LET room == socketToRoom[c] IN
    IF limited
      THEN <<>>
    ELSE IF room = None
      THEN emitError(conn, c, ForbiddenException("Not in a room"))
    ELSE BroadcastEmit(rooms, conn, room, c,
           [BlankMsg EXCEPT !.ev = "draw.clear", !.requestId = requestId])

\* what clearCanvas emits once the limiter has answered `limited`
clearCanvasEmits(c, requestId, limited) ==
  LET room == socketToRoom[c] IN
    IF limited
      THEN emitError(conn, c, ForbiddenException("Too many clear events"))
    ELSE IF room = None
      THEN emitError(conn, c, ForbiddenException("Not in a room"))
    ELSE BroadcastEmit(rooms, conn, room, c,
           [BlankMsg EXCEPT !.ev = "draw.clear", !.requestId = requestId])

\* draw.clear arrives (a client sends at most budget.clear of them per window)
clearCanvas(c, requestId) ==
  /\ conn[c] = "open"
  /\ WindowCount(clearLog[c], CLEAR_RATE_WINDOW_MS) < budget.clear
  /\ clearRateMap' = MapSet(clearRateMap, c, ClearRateNext(c))
  /\ clearLog' = [clearLog EXCEPT ![c] =
                    LogEvent(@, CLEAR_RATE_WINDOW_MS, ~isClearRateLimited(c))]
  /\ last' = Step("draw.clear", c, isClearRateLimited(c))
  /\ out' = clearCanvasEmits(c, requestId, isClearRateLimited(c))
  /\ UNCHANGED <<redis, redisKeys, mem, cacheH, chatRequestRepository, savedChatsRepository, calls, writes, redisOn, redisUp, escaped, procOf, conn, socketToUser, socketToRoom, strokeRateMap,
                 rooms, binding, redisQ, connH, discH, joinH, leaveH, now, budget,
                 estab, told, strokeLog>>

\* the wall clock advances between two events
Tick ==
  /\ budget.tick > 0
  /\ budget' = [budget EXCEPT !.tick = @ - 1]
  /\ now' = now + TickMs
  /\ out' = <<>>
  /\ last' = Quiet
  /\ UNCHANGED <<redis, redisKeys, mem, cacheH, chatRequestRepository, savedChatsRepository, calls, writes, redisOn, redisUp, escaped, procOf, conn, socketToUser, socketToRoom, strokeRateMap,
                 clearRateMap, rooms, binding, redisQ, connH, discH, joinH, leaveH,
                 estab, told, strokeLog, clearLog>>

----------------------------------------------------------------------------
(* Specifications *)

\* rooms and presence in one process: connections, joins, leaves and
\* disconnects under any interleaving of the handlers' awaits
Next ==
  \/ \E c \in Conns : \E userId \in {UserOf(c), None} : handleConnection(c, userId)
  \/ \E c \in Conns : handleDisconnect(c)
  \/ \E c \in Conns : \E r \in RequestIds : joinChat(c, r)
  \/ \E c \in Conns : \E i \in 1..MaxInflight : joinChatResolved(c, i)
  \/ \E c \in Conns : \E i \in 1..MaxInflight : joinChatLeft(c, i)
  \/ \E c \in Conns : \E i \in 1..MaxInflight : joinChatJoined(c, i)
  \/ \E c \in Conns : \E i \in 1..MaxInflight : joinChatSockets(c, i)
  \/ \E c \in Conns : leaveChat(c)
  \/ \E c \in Conns : \E i \in 1..MaxInflight : leaveChatLeft(c, i)

Spec == Init /\ [][Next]_vars

\* the shared identity binding: connects and disconnects of sockets spread
\* over the workers, with Redis executing their commands in any order that
\* keeps each worker's commands in sequence
NextBinding ==
  \/ \E c \in Conns : \E userId \in {UserOf(c), None} : handleConnection(c, userId)
  \/ \E p \in Procs : hsetDone(p)
  \/ \E c \in Conns : handleDisconnect(c)
  \/ \E p \in Procs : hgetDone(p)
  \/ \E p \in Procs : hdelDone(p)

SpecBinding == InitBinding /\ [][NextBinding]_vars

NextRate ==
  \/ \E c \in RateConns : handleConnection(c, UserOf(c))
  \/ \E c \in RateConns : joinChat(c, RateRequest)
  \/ \E c \in RateConns : \E i \in 1..MaxInflight : joinChatResolved(c, i)
  \/ \E c \in RateConns : \E i \in 1..MaxInflight : joinChatJoined(c, i)
  \/ \E c \in RateConns : \E i \in 1..MaxInflight : joinChatSockets(c, i)
  \/ Tick

\* a burst of strokes of one socket against the clock
NextStroke ==
  \/ NextRate
  \/ drawStroke(Drawer, RateRequest)

SpecStroke == InitStroke /\ [][NextStroke]_vars

\* a burst of clears of one socket against the clock
NextClear ==
  \/ NextRate
  \/ clearCanvas(Drawer, RateRequest)

SpecClear == InitClear /\ [][NextClear]_vars

\* the presence scenario: clients join one after the other, each sending
\* chat.join only when no earlier join is still being handled; sockets may
\* disconnect at any moment
InitPresence ==
  /\ InitGateway
  /\ InitLocal
  /\ budget = Budget(MaxJoins, 0, 0, 0, 0)

joinChatInTurn(c, requestId) ==
  /\ \A x \in Conns : joinH[x] = <<>>
  /\ joinChat(c, requestId)

NextPresence ==
  \/ \E c \in Conns : handleConnection(c, UserOf(c))
  \/ \E c \in Conns : handleDisconnect(c)
  \/ \E c \in Conns : \E r \in RequestIds : joinChatInTurn(c, r)
  \/ \E c \in Conns : \E i \in 1..MaxInflight : joinChatResolved(c, i)
  \/ \E c \in Conns : \E i \in 1..MaxInflight : joinChatLeft(c, i)
  \/ \E c \in Conns : \E i \in 1..MaxInflight : joinChatJoined(c, i)
  \/ \E c \in Conns : \E i \in 1..MaxInflight : joinChatSockets(c, i)

SpecPresence == InitPresence /\ [][NextPresence]_vars

\* handshakes with any credential in any channel, with or without Redis
InitAuth ==
  /\ InitGateway
  /\ InitConfig
  /\ budget = Budget(0, 0, 0, 0, 0)

NextAuth ==
  \/ \E c \in Conns : \E h \in Handshakes : handshake(c, h)
  \/ \E p \in Procs : hsetDone(p)
  \/ \E c \in Conns : handleDisconnect(c)
  \/ \E p \in Procs : hgetDone(p)
  \/ \E p \in Procs : hdelDone(p)

SpecAuth == InitAuth /\ [][NextAuth]_vars

\* two sockets connect with any handshake; the handshake that was accepted is
\* kept in last
NextChannels ==
  \/ \E c \in RateConns : \E h \in Handshakes : handshakeNoted(c, h)
  \/ \E p \in Procs : hsetDone(p)
  \/ \E c \in RateConns : handleDisconnect(c)
  \/ \E p \in Procs : hgetDone(p)
  \/ \E p \in Procs : hdelDone(p)

SpecChannels == InitAuth /\ [][NextChannels]_vars

\* two clients that join the room of request r1 and also ask for requests
\* they have no access to: an unknown id, a request between two other users,
\* a request that is still pending
NextDenial ==
  \/ \E c \in RateConns : handleConnection(c, UserOf(c))
  \/ \E c \in RateConns : handleDisconnect(c)
  \/ \E c \in RateConns : \E r \in {RateRequest, UnknownRequest, ForeignRequest, "r3"} : joinChat(c, r)
  \/ \E c \in RateConns : \E i \in 1..MaxInflight : joinChatResolved(c, i)
  \/ \E c \in RateConns : \E i \in 1..MaxInflight : joinChatJoined(c, i)
  \/ \E c \in RateConns : \E i \in 1..MaxInflight : joinChatSockets(c, i)

InitDenial ==
  /\ InitGateway
  /\ InitLocal
  /\ budget = Budget(MaxJoins + 1, 0, 0, 0, 0)

SpecDenial == InitDenial /\ [][NextDenial]_vars

\* the same, every awaited call of a joinChat handler returning in the end
SpecDenialFair ==
  /\ SpecDenial
  /\ WF_vars(\E c \in RateConns : \E i \in 1..MaxInflight :
               joinChatResolved(c, i) \/ joinChatJoined(c, i) \/ joinChatSockets(c, i))

\* two clients that move between the rooms of requests r1 and r2, with any
\* number of their chat.join events being handled at once
NextSwitch ==
  \/ \E c \in RateConns : handleConnection(c, UserOf(c))
  \/ \E c \in RateConns : \E r \in {"r1", "r2"} : joinChat(c, r)
  \/ \E c \in RateConns : \E i \in 1..MaxInflight : joinChatResolved(c, i)
  \/ \E c \in RateConns : \E i \in 1..MaxInflight : joinChatLeft(c, i)
  \/ \E c \in RateConns : \E i \in 1..MaxInflight : joinChatJoined(c, i)
  \/ \E c \in RateConns : \E i \in 1..MaxInflight : joinChatSockets(c, i)

SpecSwitch == InitDenial /\ [][NextSwitch]_vars

\* the relay: three clients join the rooms of r1 and r2 one after the other
\* and disconnect at any moment, while one of them sends a stroke and a clear
\* whose payload may name either request
InitRelay ==
  /\ InitGateway
  /\ InitLocal
  /\ budget = Budget(Cardinality(Conns), 0, 1, 1, 0)

NextRelay ==
  \/ \E c \in Conns : handleConnection(c, UserOf(c))
  \/ \E c \in Conns : handleDisconnect(c)
  \/ \E c \in Conns : \E r \in {"r1", "r2"} : joinChatInTurn(c, r)
  \/ \E c \in Conns : \E i \in 1..MaxInflight : joinChatResolved(c, i)
  \/ \E c \in Conns : \E i \in 1..MaxInflight : joinChatLeft(c, i)
  \/ \E c \in Conns : \E i \in 1..MaxInflight : joinChatJoined(c, i)
  \/ \E c \in Conns : \E i \in 1..MaxInflight : joinChatSockets(c, i)
  \/ \E r \in {"r1", "r2"} : drawStroke(Drawer, r)
  \/ \E r \in {"r1", "r2"} : clearCanvas(Drawer, r)

SpecRelay == InitRelay /\ [][NextRelay]_vars

\* two clients that connect, join the room of request r1 and disconnect, on
\* one process whose Redis is down
NextDegraded ==
  \/ \E c \in RateConns : handleConnection(c, UserOf(c))
  \/ \E p \in Procs : hsetFailed(p)
  \/ \E c \in RateConns : handleDisconnect(c)
  \/ \E p \in Procs : hgetFailed(p)
  \/ \E c \in RateConns : joinChat(c, RateRequest)
  \/ \E c \in RateConns : \E i \in 1..MaxInflight : joinChatResolved(c, i)
  \/ \E c \in RateConns : \E i \in 1..MaxInflight : joinChatJoined(c, i)
  \/ \E c \in RateConns : \E i \in 1..MaxInflight : joinChatSocketsFailed(c, i)

SpecDegraded == InitDegraded /\ [][NextDegraded]_vars

\* the cluster: the sockets are spread over the workers behind the Redis
\* adapter and join the room of request r1 one after the other
InitCluster ==
  /\ InitGateway
  /\ InitConfig
  /\ redisOn
  /\ budget = Budget(MaxJoins, 0, 0, 0, 0)

NextCluster ==
  \/ \E c \in Conns : handleConnection(c, UserOf(c))
  \/ \E p \in Procs : hsetDone(p)
  \/ \E c \in Conns : joinChatInTurn(c, RateRequest)
  \/ \E c \in Conns : \E i \in 1..MaxInflight : joinChatResolved(c, i)
  \/ \E c \in Conns : \E i \in 1..MaxInflight : joinChatJoined(c, i)
  \/ \E c \in Conns : \E i \in 1..MaxInflight : joinChatSockets(c, i)

SpecCluster == InitCluster /\ [][NextCluster]_vars

----------------------------------------------------------------------------
(* ChatService: responding to and cancelling chat requests *)

MaxCalls == 3    \* respondToRequest / cancelRequest calls in a run of SpecChat

\* the requests the callers name: the pending one, a resolved one, an unknown id
CalledRequests == {"r3", "r1", UnknownRequest}

\* repository.findOne({ where: { id } }): the row, or null
HasRow(repo, requestId) == requestId \in DOMAIN repo

\* the status of a row as the table holds it; "absent" when there is no row
StatusOf(repo, requestId) ==
  IF HasRow(repo, requestId) THEN repo[requestId].status ELSE "absent"

BlankCall == [op |-> None, pc |-> "done", userId |-> None, requestId |-> None,
              accept |-> FALSE, seen |-> "absent", request |-> <<>>,
              notify |-> <<>>, result |-> 0]

\* the checks between findOne and the write: 404, 403, 400, or 0 to go on
respondToRequestChecks(repo, requestId, responderUserId) ==
  IF ~HasRow(repo, requestId) THEN 404
  ELSE IF repo[requestId].toUserId # responderUserId THEN 403
  ELSE IF repo[requestId].status # "PENDING" THEN 400
  ELSE 0

cancelRequestChecks(repo, requestId, userId) ==
  IF ~HasRow(repo, requestId) THEN 404
  ELSE IF repo[requestId].fromUserId # userId THEN 403
  ELSE IF repo[requestId].status # "PENDING" THEN 400
  ELSE 0

ServiceGatewayUnchanged ==
  UNCHANGED <<redis, redisKeys, mem, cacheH, redisOn, redisUp, escaped, procOf, conn, socketToUser, socketToRoom,
              strokeRateMap, clearRateMap, rooms, binding, redisQ, connH, discH,
              joinH, leaveH, now, budget, last, estab, told, strokeLog, clearLog>>

\* respondToRequest, up to its await of save: findOne, the three checks, and
\* the status set on the loaded entity
respondToRequest(requestId, responderUserId, accept) ==
  /\ Len(calls) < MaxCalls
  /\ LET code == respondToRequestChecks(chatRequestRepository, requestId, responderUserId)
         call == [BlankCall EXCEPT !.op = "respondToRequest", !.userId = responderUserId,
                                   !.requestId = requestId, !.accept = accept,
                                   !.seen = StatusOf(chatRequestRepository, requestId)]
     IN  calls' = Append(calls,
           IF code # 0 THEN [call EXCEPT !.result = code]
           ELSE [call EXCEPT !.pc = "save",
                   !.request = <<[chatRequestRepository[requestId] EXCEPT
                                    !.status = IF accept THEN "ACCEPTED" ELSE "REJECTED"]>>])
  /\ out' = <<>>
  /\ UNCHANGED <<chatRequestRepository, savedChatsRepository, writes>>
  /\ ServiceGatewayUnchanged

\* repository.save(request) executes: the row with this id is updated, or
\* inserted when there is none; then the two notifications are started
respondToRequestSaved(k) ==
  /\ k \in 1..Len(calls)
  /\ calls[k].op = "respondToRequest"
  /\ calls[k].pc = "save"
  /\ LET h == calls[k]
         savedRequest == h.request[1]
     IN  /\ chatRequestRepository' = MapSet(chatRequestRepository, h.requestId, savedRequest)
         /\ writes' = Append(writes, [op |-> "save", call |-> k, requestId |-> h.requestId,
                                      by |-> h.userId,
                                      from |-> StatusOf(chatRequestRepository, h.requestId),
                                      to |-> savedRequest.status])
         /\ calls' = [calls EXCEPT ![k].pc = "notify", ![k].result = 200,
                        ![k].notify = <<savedRequest.fromUserId, savedRequest.toUserId>>]
  /\ out' = <<>>
  /\ UNCHANGED savedChatsRepository
  /\ ServiceGatewayUnchanged

\* notifyChatRequested emits 'chat.requested', notifyChatResponse 'chat.response'
EventOf(op) == IF op = "createRequest" THEN "chat.requested" ELSE "chat.response"

\* notifyChatResponse -> emitToUser: the user's socket id is read from the Redis
\* hash, or without Redis from the users table, whose socketId column nothing
\* writes; without a socket id the event is dropped
emitToUser(k) ==
  /\ k \in 1..Len(calls)
  /\ calls[k].pc = "notify"
  /\ LET h == calls[k]
         userId == Head(h.notify)
         socketId == IF redisOn /\ userId \in DOMAIN binding THEN binding[userId] ELSE None
     IN  /\ out' = IF socketId = None THEN <<>>
                   ELSE ClientEmit(conn, [BlankMsg EXCEPT !.to = socketId,
                                            !.ev = EventOf(h.op),
                                            !.requestId = h.requestId,
                                            !.userId = h.userId])
         /\ calls' = [calls EXCEPT ![k].notify = Tail(h.notify),
                        ![k].pc = IF Len(h.notify) = 1 THEN "done" ELSE "notify"]
  /\ UNCHANGED <<chatRequestRepository, savedChatsRepository, writes>>
  /\ ServiceGatewayUnchanged

\* cancelRequest, up to its await of remove: findOne and the three checks
cancelRequest(requestId, userId) ==
  /\ Len(calls) < MaxCalls
  /\ LET code == cancelRequestChecks(chatRequestRepository, requestId, userId)
         call == [BlankCall EXCEPT !.op = "cancelRequest", !.userId = userId,
                                   !.requestId = requestId,
                                   !.seen = StatusOf(chatRequestRepository, requestId)]
     IN  calls' = Append(calls,
           IF code # 0 THEN [call EXCEPT !.result = code]
           ELSE [call EXCEPT !.pc = "remove",
                             !.request = <<chatRequestRepository[requestId]>>])
  /\ out' = <<>>
  /\ UNCHANGED <<chatRequestRepository, savedChatsRepository, writes>>
  /\ ServiceGatewayUnchanged

\* repository.remove(request) executes: the row with this id is deleted, and
\* with it the saved_chats rows that refer to it (ON DELETE CASCADE)
cancelRequestRemoved(k) ==
  /\ k \in 1..Len(calls)
  /\ calls[k].op = "cancelRequest"
  /\ calls[k].pc = "remove"
  /\ LET h == calls[k]
     IN  /\ chatRequestRepository' = MapDelete(chatRequestRepository, h.requestId)
         /\ savedChatsRepository' =
              [id \in {x \in DOMAIN savedChatsRepository :
                         savedChatsRepository[x].chatRequestId # h.requestId}
                 |-> savedChatsRepository[id]]
         /\ writes' = Append(writes, [op |-> "remove", call |-> k, requestId |-> h.requestId,
                                      by |-> h.userId,
                                      from |-> StatusOf(chatRequestRepository, h.requestId),
                                      to |-> "absent"])
         /\ calls' = [calls EXCEPT ![k].pc = "done", ![k].result = 200]
  /\ out' = <<>>
  /\ ServiceGatewayUnchanged

\* the service on one process with Redis; users u1 and u2 connect at any time
InitChat ==
  /\ InitGateway
  /\ redisOn = TRUE
  /\ redis = FALSE
  /\ redisUp = TRUE
  /\ procOf = [c \in Conns |-> "p1"]
  /\ budget = Budget(0, 0, 0, 0, 0)

NextChat ==
  \/ \E c \in RateConns : handleConnection(c, UserOf(c))
  \/ \E p \in Procs : hsetDone(p)
  \/ \E r \in CalledRequests : \E u \in Users : \E a \in BOOLEAN : respondToRequest(r, u, a)
  \/ \E k \in 1..MaxCalls : respondToRequestSaved(k)
  \/ \E k \in 1..MaxCalls : emitToUser(k)
  \/ \E r \in CalledRequests : \E u \in Users : cancelRequest(r, u)
  \/ \E k \in 1..MaxCalls : cancelRequestRemoved(k)

SpecChat == InitChat /\ [][NextChat]_vars

----------------------------------------------------------------------------
(* ChatService: creating chat requests *)

\* the users table as createRequest reads it: u3 does not accept requests
Accounts == [u1 |-> [mode |-> "PUBLIC"], u2 |-> [mode |-> "PUBLIC"],
             u3 |-> [mode |-> "PRIVATE"], u4 |-> [mode |-> "PUBLIC"]]

\* dto.toDisplayName: the name of an account, or a name nobody has
DisplayNames == DOMAIN Accounts \cup {"nobody"}

\* usersService.isBlocked: a block in either direction; the user_blocks table
\* holds one block, between u2 and u4
isBlocked(userAId, userBId) == {userAId, userBId} \in {{"u2", "u4"}}

\* findOne({ where: { fromUserId, toUserId, status: PENDING } }) finds a row
HasPending(repo, fromUserId, toUserId) ==
  \E id \in DOMAIN repo :
    repo[id] = [fromUserId |-> fromUserId, toUserId |-> toUserId, status |-> "PENDING"]

\* the id the table gives the row that call k inserts
NewId(k) == "n" \o ToString(k)

\* the checks of createRequest before the insert: 404, 400, 403, or 0 to go on
createRequestChecks(repo, fromUserId, toDisplayName) ==
  IF toDisplayName \notin DOMAIN Accounts THEN 404
  ELSE IF toDisplayName = fromUserId THEN 400
  ELSE IF isBlocked(fromUserId, toDisplayName) THEN 403
  ELSE IF Accounts[toDisplayName].mode # "PUBLIC" THEN 403
  ELSE IF HasPending(repo, fromUserId, toDisplayName) THEN 400
  ELSE 0

\* createRequest, up to its await of save: the user lookups, the block and
\* mode checks, the findOne for a pending duplicate, and repository.create
createRequest(fromUserId, toDisplayName) ==
  /\ Len(calls) < MaxCalls
  /\ LET code == createRequestChecks(chatRequestRepository, fromUserId, toDisplayName)
         call == [BlankCall EXCEPT !.op = "createRequest", !.userId = fromUserId,
                    !.seen = IF HasPending(chatRequestRepository, fromUserId, toDisplayName)
                               THEN "PENDING" ELSE "absent",
                    !.request = <<[fromUserId |-> fromUserId, toUserId |-> toDisplayName,
                                   status |-> "PENDING"]>>]
     IN  calls' = Append(calls,
           IF code # 0 THEN [call EXCEPT !.result = code]
           ELSE [call EXCEPT !.pc = "save"])
  /\ out' = <<>>
  /\ UNCHANGED <<chatRequestRepository, savedChatsRepository, writes>>
  /\ ServiceGatewayUnchanged

\* repository.save(request) executes: a row with a new id is inserted; then
\* the recipient's notification is started
createRequestSaved(k) ==
  /\ k \in 1..Len(calls)
  /\ calls[k].op = "createRequest"
  /\ calls[k].pc = "save"
  /\ LET h == calls[k]
         savedRequest == h.request[1]
     IN  /\ chatRequestRepository' = MapSet(chatRequestRepository, NewId(k), savedRequest)
         /\ writes' = Append(writes, [op |-> "insert", call |-> k, requestId |-> NewId(k),
                                      by |-> h.userId, from |-> "absent",
                                      to |-> savedRequest.status])
         /\ calls' = [calls EXCEPT ![k].pc = "notify", ![k].result = 201,
                        ![k].requestId = NewId(k),
                        ![k].notify = <<savedRequest.toUserId>>]
  /\ out' = <<>>
  /\ UNCHANGED savedChatsRepository
  /\ ServiceGatewayUnchanged

\* users create requests, and the sender of one may cancel it, at any time
NextCreate ==
  \/ \E c \in RateConns : handleConnection(c, UserOf(c))
  \/ \E p \in Procs : hsetDone(p)
  \/ \E u \in Users : \E n \in DisplayNames : createRequest(u, n)
  \/ \E k \in 1..MaxCalls : createRequestSaved(k)
  \/ \E k \in 1..MaxCalls : emitToUser(k)
  \/ \E u \in Users : cancelRequest("r3", u)
  \/ \E k \in 1..MaxCalls : cancelRequestRemoved(k)

SpecCreate == InitChat /\ [][NextCreate]_vars

----------------------------------------------------------------------------
(* ChatService: saving chats *)

\* the requests saveChat is called with: accepted, pending, of other users, unknown
SavedRequests == {"r1", "r3", ForeignRequest, UnknownRequest}

\* savedChatsRepository.findOne({ where: { chatRequestId, savedByUserId } })
SavedRows(saved, requestId, userId) ==
  {id \in DOMAIN saved : saved[id] = [chatRequestId |-> requestId,
                                       savedByUserId |-> userId]}

\* the checks of saveChat on the request it found: 404, 403, 400, or 0 to go on
saveChatChecks(repo, requestId, userId) ==
  IF ~HasRow(repo, requestId) THEN 404
  ELSE IF repo[requestId].fromUserId # userId /\ repo[requestId].toUserId # userId THEN 403
  ELSE IF repo[requestId].status # "ACCEPTED" THEN 400
  ELSE 0

\* saveChat, up to its await of savedChatsRepository.findOne: the request is
\* read and checked
saveChat(requestId, userId) ==
  /\ Len(calls) < MaxCalls
  /\ LET code == saveChatChecks(chatRequestRepository, requestId, userId)
         call == [BlankCall EXCEPT !.op = "saveChat", !.userId = userId,
                                   !.requestId = requestId,
                                   !.seen = StatusOf(chatRequestRepository, requestId)]
     IN  calls' = Append(calls,
           IF code # 0 THEN [call EXCEPT !.result = code]
           ELSE [call EXCEPT !.pc = "existing"])
  /\ out' = <<>>
  /\ UNCHANGED <<chatRequestRepository, savedChatsRepository, writes>>
  /\ ServiceGatewayUnchanged

\* savedChatsRepository.findOne executes: an existing record is returned,
\* otherwise a new entity is created and its save awaited
saveChatLooked(k) ==
  /\ k \in 1..Len(calls)
  /\ calls[k].op = "saveChat"
  /\ calls[k].pc = "existing"
  /\ LET h == calls[k]
         existing == SavedRows(savedChatsRepository, h.requestId, h.userId)
     IN  calls' = [calls EXCEPT ![k] =
           IF existing # {} THEN [h EXCEPT !.pc = "done", !.result = 200]
           ELSE [h EXCEPT !.pc = "save",
                   !.request = <<[chatRequestId |-> h.requestId,
                                  savedByUserId |-> h.userId]>>]]
  /\ out' = <<>>
  /\ UNCHANGED <<chatRequestRepository, savedChatsRepository, writes>>
  /\ ServiceGatewayUnchanged

\* savedChatsRepository.save(saved) executes: the INSERT is refused when the
\* unique index on (chatRequestId, savedByUserId) or the foreign key to
\* chat_requests does not allow the row, and saveChat then rejects with the
\* database error (status 500); otherwise the row is stored
saveChatSaved(k) ==
  /\ k \in 1..Len(calls)
  /\ calls[k].op = "saveChat"
  /\ calls[k].pc = "save"
  /\ LET h == calls[k]
         saved == h.request[1]
         refused == \/ SavedRows(savedChatsRepository, h.requestId, h.userId) # {}
                    \/ ~HasRow(chatRequestRepository, h.requestId)
     IN  /\ savedChatsRepository' =
              IF refused THEN savedChatsRepository
              ELSE MapSet(savedChatsRepository, NewId(k), saved)
         /\ writes' = Append(writes, [op |-> "insert", call |-> k, requestId |-> h.requestId,
                                      by |-> h.userId, from |-> "absent",
                                      to |-> IF refused THEN "refused" ELSE "saved"])
         /\ calls' = [calls EXCEPT ![k].pc = "done",
                        ![k].result = IF refused THEN 500 ELSE 201]
  /\ out' = <<>>
  /\ UNCHANGED chatRequestRepository
  /\ ServiceGatewayUnchanged

\* users save chats at any time, several calls at once
NextSave ==
  \/ \E r \in SavedRequests : \E u \in Users : saveChat(r, u)
  \/ \E k \in 1..MaxCalls : saveChatLooked(k)
  \/ \E k \in 1..MaxCalls : saveChatSaved(k)

SpecSave == InitChat /\ [][NextSave]_vars

\* clients that join the room of request r1 one after the other, leave it
\* (each sends its next event when the earlier one was answered), disconnect
\* at any moment, and draw
InitLeave ==
  /\ InitGateway
  /\ InitLocal
  /\ budget = Budget(Cardinality(Conns), MaxLeaves, 1, 1, 0)

\* a client sends chat.join only when its earlier leave was answered and no
\* join is in flight
joinChatAnswered(c, requestId) ==
  /\ leaveH[c] = <<>>
  /\ joinChatInTurn(c, requestId)

\* a client sends draw.leave only when its earlier join or leave was answered
leaveChatInTurn(c) ==
  /\ joinH[c] = <<>>
  /\ leaveH[c] = <<>>
  /\ leaveChat(c)

NextLeave ==
  \/ \E c \in Conns : handleConnection(c, UserOf(c))
  \/ \E c \in Conns : handleDisconnect(c)
  \/ \E c \in Conns : joinChatAnswered(c, RateRequest)
  \/ \E c \in Conns : \E i \in 1..MaxInflight : joinChatResolved(c, i)
  \/ \E c \in Conns : \E i \in 1..MaxInflight : joinChatJoined(c, i)
  \/ \E c \in Conns : \E i \in 1..MaxInflight : joinChatSockets(c, i)
  \/ \E c \in Conns : leaveChatInTurn(c)
  \/ \E c \in Conns : \E i \in 1..MaxInflight : leaveChatLeft(c, i)
  \/ drawStroke(Drawer, RateRequest)
  \/ clearCanvas(Drawer, RateRequest)

SpecLeave == InitLeave /\ [][NextLeave]_vars

\* two clients connect and join the room of request r1, with Redis; a third
\* socket shows up with a handshake that carries no valid credential; it and
\* one client disconnect
Intruder == "c3"

InitReject ==
  /\ InitGateway
  /\ redisOn = TRUE
  /\ redis = FALSE
  /\ redisUp = TRUE
  /\ procOf = [c \in Conns |-> "p1"]
  /\ budget = Budget(Cardinality(RateConns), 0, 0, 0, 0)

NextReject ==
  \/ \E c \in RateConns : handleConnection(c, UserOf(c))
  \/ \E h \in Rejected : handshake(Intruder, h)
  \/ \E p \in Procs : hsetDone(p)
  \/ \E c \in {Intruder, Watcher} : handleDisconnect(c)
  \/ \E p \in Procs : hgetDone(p)
  \/ \E p \in Procs : hdelDone(p)
  \/ \E c \in RateConns : joinChatInTurn(c, RateRequest)
  \/ \E c \in Conns : \E i \in 1..MaxInflight : joinChatResolved(c, i)
  \/ \E c \in Conns : \E i \in 1..MaxInflight : joinChatJoined(c, i)
  \/ \E c \in Conns : \E i \in 1..MaxInflight : joinChatSockets(c, i)

SpecReject == InitReject /\ [][NextReject]_vars

\* clients in the room of request r1 stroke and clear, with clock ticks
\* enough for the windows of both classes to elapse
InitWindow ==
  /\ InitGateway
  /\ InitLocal
  /\ budget = Budget(Cardinality(RateConns), 0, RateStrokes, RateClears, ClearTicks)

\* a stroke, and a clear, sent once both clients are in the room; the watcher
\* sends only a few
drawStrokeInRoom(c) ==
  /\ \A x \in RateConns : joinH[x] = <<>> /\ socketToRoom[x] = buildRoomId(RateRequest)
  /\ c = Watcher => Len(strokeLog[c].log) < WatcherEvents
  /\ drawStroke(c, RateRequest)

clearCanvasInRoom(c) ==
  /\ \A x \in RateConns : joinH[x] = <<>> /\ socketToRoom[x] = buildRoomId(RateRequest)
  /\ c = Watcher => Len(clearLog[c].log) < WatcherEvents
  /\ clearCanvas(c, RateRequest)

\* both clients draw and clear while the clock stands still: the drawer up to
\* past both thresholds
NextCounters ==
  \/ \E c \in RateConns : handleConnection(c, UserOf(c))
  \/ \E c \in RateConns : joinChatInTurn(c, RateRequest)
  \/ \E c \in RateConns : \E i \in 1..MaxInflight : joinChatResolved(c, i)
  \/ \E c \in RateConns : \E i \in 1..MaxInflight : joinChatJoined(c, i)
  \/ \E c \in RateConns : \E i \in 1..MaxInflight : joinChatSockets(c, i)
  \/ \E c \in RateConns : drawStrokeInRoom(c)
  \/ \E c \in RateConns : clearCanvasInRoom(c)

SpecCounters == InitWindow /\ [][NextCounters]_vars

\* the client clears throughout and draws while the clock has its last
\* StrokeTicks ticks left
drawStrokeLate(c) ==
  /\ budget.tick <= StrokeTicks
  /\ drawStrokeInRoom(c)

\* one client strokes and clears against the clock
NextWindow ==
  \/ NextRate
  \/ drawStrokeLate(Drawer)
  \/ clearCanvasInRoom(Drawer)

SpecWindow == InitWindow /\ [][NextWindow]_vars

\* the chat service called while clients connect, no Redis configured
NextNotify ==
  \/ \E c \in RateConns : handleConnection(c, UserOf(c))
  \/ \E u \in Users : \E n \in DisplayNames : createRequest(u, n)
  \/ \E k \in 1..MaxCalls : createRequestSaved(k)
  \/ \E r \in CalledRequests : \E u \in Users : \E a \in BOOLEAN : respondToRequest(r, u, a)
  \/ \E k \in 1..MaxCalls : respondToRequestSaved(k)
  \/ \E k \in 1..MaxCalls : emitToUser(k)

SpecNotify == Init /\ [][NextNotify]_vars

\* REDIS_HOST is set and the Redis server is reachable throughout, or not at
\* all
InitAnswer ==
  /\ InitGateway
  /\ redisOn = TRUE
  /\ redis = FALSE
  /\ redisUp \in BOOLEAN
  /\ procOf = [c \in Conns |-> "p1"]
  /\ budget = Budget(MaxJoins, MaxLeaves, 0, 0, 0)

\* two clients send chat.join for the accepted and for the pending request
\* and draw.leave, each once its earlier event was answered, and disconnect
\* at any moment; every awaited call of a handler returns or fails in the end
NextAnswer ==
  \/ \E c \in RateConns : handleConnection(c, UserOf(c))
  \/ \E p \in Procs : hsetDone(p) \/ hsetFailed(p)
  \/ \E c \in RateConns : handleDisconnect(c)
  \/ \E p \in Procs : hgetDone(p) \/ hgetFailed(p) \/ hdelDone(p)
  \/ \E c \in RateConns : \E r \in {RateRequest, "r3"} : joinChatInTurn(c, r)
  \/ \E c \in RateConns : \E i \in 1..MaxInflight : joinChatResolved(c, i)
  \/ \E c \in RateConns : \E i \in 1..MaxInflight : joinChatJoined(c, i)
  \/ \E c \in RateConns : \E i \in 1..MaxInflight : joinChatSockets(c, i)
  \/ \E c \in RateConns : \E i \in 1..MaxInflight : joinChatSocketsFailed(c, i)
  \/ \E c \in RateConns : leaveChatInTurn(c)
  \/ \E c \in RateConns : \E i \in 1..MaxInflight : leaveChatLeft(c, i)

SpecAnswer ==
  /\ InitAnswer
  /\ [][NextAnswer]_vars
  /\ WF_vars(\E c \in RateConns : \E i \in 1..MaxInflight :
               \/ joinChatResolved(c, i) \/ joinChatJoined(c, i)
               \/ joinChatSockets(c, i) \/ joinChatSocketsFailed(c, i)
               \/ leaveChatLeft(c, i))

----------------------------------------------------------------------------
(* CacheService *)

\* the Redis server stops answering (the commands of the client are
\* rejected), and answers again with the keys it held
redisUnavailable ==
  /\ redisUp
  /\ redisUp' = FALSE
  /\ cacheH' = [cacheH EXCEPT !.got = <<>>]
  /\ UNCHANGED <<redis, redisKeys, mem>>
  /\ UNCHANGED <<redisOn, escaped, procOf, conn, socketToUser, socketToRoom,
                 strokeRateMap, clearRateMap, rooms, binding, redisQ, connH, discH,
                 joinH, leaveH, now, budget, out, last, estab, told, strokeLog,
                 clearLog, chatRequestRepository, savedChatsRepository, calls, writes>>

redisAvailable ==
  /\ ~redisUp
  /\ redisUp' = TRUE
  /\ cacheH' = [cacheH EXCEPT !.got = <<>>]
  /\ UNCHANGED <<redis, redisKeys, mem>>
  /\ UNCHANGED <<redisOn, escaped, procOf, conn, socketToUser, socketToRoom,
                 strokeRateMap, clearRateMap, rooms, binding, redisQ, connH, discH,
                 joinH, leaveH, now, budget, out, last, estab, told, strokeLog,
                 clearLog, chatRequestRepository, savedChatsRepository, calls, writes>>

\* get(key): the answer of Redis when there is a client and the command
\* succeeds (the text stored under the key, none once its EX time has passed);
\* otherwise the entry of mem, dropped when it has expired
get(key) ==
  /\ LET raw == IF redisKeys[key] # <<>> /\ now < redisKeys[key][1].expiresAt
                THEN <<redisKeys[key][1].value>> ELSE <<>>
         entry == mem[key]
         expired == entry # <<>> /\ now > entry[1].expiresAt
         result == IF redis /\ redisUp
                   THEN IF raw # <<>> THEN <<JSONparse(raw[1])>> ELSE <<>>
                   ELSE IF entry = <<>> \/ expired THEN <<>>
                        ELSE <<JSONparse(entry[1].value)>>
     IN  /\ mem' = IF ~(redis /\ redisUp) /\ expired
                   THEN [mem EXCEPT ![key] = <<>>] ELSE mem
         /\ cacheH' = [cacheH EXCEPT !.got = <<[key |-> key, result |-> result,
                                                after |-> cacheH.done[key]]>>]
  /\ UNCHANGED <<redis, redisUp, redisKeys>>
  /\ UNCHANGED <<redisOn, escaped, procOf, conn, socketToUser, socketToRoom,
                 strokeRateMap, clearRateMap, rooms, binding, redisQ, connH, discH,
                 joinH, leaveH, now, budget, out, last, estab, told, strokeLog,
                 clearLog, chatRequestRepository, savedChatsRepository, calls, writes>>

\* set(key, value, ttlSeconds): SET key EX ttl on Redis and return; the entry
\* goes to mem when there is no client or the command is rejected
set(key, value, ttlSeconds) ==
  /\ LET serialised == JSONstringify(value)
         entry == [value |-> serialised, expiresAt |-> now + ttlSeconds * 1000]
     IN  IF redis /\ redisUp
         THEN /\ redisKeys' = [redisKeys EXCEPT ![key] = <<entry>>]
              /\ UNCHANGED mem
         ELSE /\ mem' = [mem EXCEPT ![key] = <<entry>>]
              /\ UNCHANGED redisKeys
  /\ cacheH' = [done |-> [cacheH.done EXCEPT ![key] = [op |-> "set", value |-> value]],
                got |-> <<>>]
  /\ UNCHANGED <<redis, redisUp>>
  /\ UNCHANGED <<redisOn, escaped, procOf, conn, socketToUser, socketToRoom,
                 strokeRateMap, clearRateMap, rooms, binding, redisQ, connH, discH,
                 joinH, leaveH, now, budget, out, last, estab, told, strokeLog,
                 clearLog, chatRequestRepository, savedChatsRepository, calls, writes>>

\* del(...keys): nothing without keys; DEL on Redis and return; the keys are
\* deleted from mem when there is no client or the command is rejected
del(keys) ==
  /\ IF keys = {} THEN UNCHANGED <<redisKeys, mem>>
     ELSE IF redis /\ redisUp
     THEN /\ redisKeys' = [k \in Keys |-> IF k \in keys THEN <<>> ELSE redisKeys[k]]
          /\ UNCHANGED mem
     ELSE /\ mem' = [k \in Keys |-> IF k \in keys THEN <<>> ELSE mem[k]]
          /\ UNCHANGED redisKeys
  /\ cacheH' = [done |-> [k \in Keys |-> IF k \in keys THEN [op |-> "del", value |-> None]
                                         ELSE cacheH.done[k]],
                got |-> <<>>]
  /\ UNCHANGED <<redis, redisUp>>
  /\ UNCHANGED <<redisOn, escaped, procOf, conn, socketToUser, socketToRoom,
                 strokeRateMap, clearRateMap, rooms, binding, redisQ, connH, discH,
                 joinH, leaveH, now, budget, out, last, estab, told, strokeLog,
                 clearLog, chatRequestRepository, savedChatsRepository, calls, writes>>

\* the cache with and without REDIS_URL: the callers call set, del and get one
\* after the other, each call having returned before the next, while the
\* Redis server goes away and comes back and the clock advances
InitCache ==
  /\ InitGateway
  /\ redisOn = FALSE
  /\ redisUp = TRUE
  /\ procOf = [c \in Conns |-> "p1"]
  /\ redis \in BOOLEAN
  /\ budget = Budget(0, 0, 0, 0, CacheTicks)

NextCache ==
  \/ \E k \in Keys : get(k)
  \/ \E k \in Keys : \E v \in Values : set(k, v, TtlSeconds)
  \/ \E ks \in SUBSET Keys : del(ks)
  \/ redisUnavailable
  \/ redisAvailable
  \/ Tick

SpecCache == InitCache /\ [][NextCache]_vars

----------------------------------------------------------------------------
(* Properties *)

\* no handler of socket c is suspended
Settled(c) == joinH[c] = <<>> /\ leaveH[c] = <<>>

\* the rooms of the transport that hold socket c
RoomsOf(c) == {r \in RoomIds : c \in Range(rooms[r])}

\* C1: the peers list of every chat.joined equals the set of identities of the
\* sockets that were in the room immediately before the joiner was added
C1_PeersAreMembersBeforeJoin ==
  last.op = "chat.joined" =>
    \A k \in 1..Len(out) :
      out[k].ev = "chat.joined" => Range(out[k].peers) = last.pre

\* C2: two settled members a and b of one room: a has learned of b's presence
\* through exactly one event (b in a's chat.joined peers, or one
\* draw.peer.joined naming b), never two and never none
C2_PresenceLearnedOnce ==
  \A a \in Conns : \A b \in Conns \ {a} :
    ( /\ conn[a] = "open" /\ conn[b] = "open"
      /\ Settled(a) /\ Settled(b)
      /\ socketToRoom[a] # None /\ socketToRoom[a] = socketToRoom[b]
      /\ RoomsOf(a) = {socketToRoom[a]} /\ RoomsOf(b) = {socketToRoom[b]} )
    => told[a][b] = 1

\* C3: a socket is in at most one room of the transport, in every state
C3_AtMostOneRoom ==
  \A c \in Conns : conn[c] = "open" => Cardinality(RoomsOf(c)) <= 1

\* C7: once handleDisconnect(c) has run and every handler of c has finished,
\* no map holds an entry for c, c is in no room and no binding names c
C7_NothingOutlivesConnection ==
  \A c \in Conns :
    (conn[c] = "closed" /\ discH[c] = "done" /\ connH[c] = "done" /\ Settled(c))
    => /\ socketToRoom[c] = None
       /\ socketToUser[c] = None
       /\ c \notin DOMAIN strokeRateMap
       /\ c \notin DOMAIN clearRateMap
       /\ RoomsOf(c) = {}
       /\ \A u \in Users : binding[u] # c

\* b superseded a: handleConnection(a) had ended when handleConnection(b)
\* began, and handleConnection(b) had ended when handleDisconnect(a) began
Superseded(a, b) ==
  /\ a # b /\ UserOf(a) = UserOf(b)
  /\ a \in estab[b].doneBefore
  /\ b \in estab[a].doneAtClose

\* C4: handleConnection(C1), handleConnection(C2), handleDisconnect(C1) for one
\* identity, one after the other, leave the identity bound to C2
C4_LateDisconnectKeepsBinding ==
  \A a \in Conns : \A b \in Conns :
    (Superseded(a, b) /\ discH[a] = "done" /\ conn[b] = "open")
    => binding[UserOf(b)] = b

C4_Witness ==
  \E a \in Conns : \E b \in Conns :
    Superseded(a, b) /\ discH[a] = "done" /\ conn[b] = "open" /\ binding[UserOf(b)] = b

\* C5: the HDEL sent by handleDisconnect(C) never removes a binding whose value,
\* when the store executes the delete, is a socket other than C
C5_DeleteIsCompareAndDelete ==
  [][\A p \in Procs :
       hdelDone(p) => binding[UserOf(Head(redisQ[p])[2])] = Head(redisQ[p])[2]]_vars

\* C6: a binding U -> C names a socket of U that is still connected, and no
\* other connected socket of U was established after C (stated for the states
\* in which no store command is pending, where the claim asks the least)
C6_BindingNamesLatestConnection ==
  (\A p \in Procs : redisQ[p] = <<>>) =>
    \A u \in Users : binding[u] # None =>
      /\ UserOf(binding[u]) = u
      /\ conn[binding[u]] = "open"
      /\ \A c \in Conns :
           (c # binding[u] /\ UserOf(c) = u /\ conn[c] = "open")
           => binding[u] \notin estab[c].begunBefore

\* C8: of the strokes of one socket handled in one 1-second window, the i-th
\* is admitted by the limiter exactly when i <= 60: the first min(n, 60) are
\* admitted, the max(0, n - 60) after them are dropped, none earlier
C8_FirstSixtyAdmitted ==
  \A c \in Conns : \A i \in 1..Len(strokeLog[c].log) :
    strokeLog[c].log[i] = (i <= STROKE_RATE_LIMIT)

\* a window of Drawer, opened after the clock had advanced, whose 61st or
\* later stroke has just been dropped
C8_Witness ==
  /\ Len(strokeLog[Drawer].log) > STROKE_RATE_LIMIT
  /\ strokeLog[Drawer].start > 0
  /\ last.op = "draw.stroke" /\ last.limited

\* the events of `out` that carry event name ev
OutOf(ev) == SelectSeq(out, LAMBDA m : m.ev = ev)

\* C9: in one 5-second window of one socket, every clear beyond the 5th yields
\* exactly one error to the sender and no draw.clear to anyone; each of the
\* first 5 clears of a socket that is in a room is broadcast to the other
\* members and yields no error
C9_ExcessClearsYieldOneError ==
  last.op = "draw.clear" =>
    LET c == last.c
        idx == Len(clearLog[c].log)
    IN /\ idx > CLEAR_RATE_LIMIT =>
            /\ Len(out) = 1 /\ out[1].ev = "error" /\ out[1].to = c
            /\ OutOf("draw.clear") = <<>>
       /\ (idx <= CLEAR_RATE_LIMIT /\ socketToRoom[c] # None) =>
            /\ OutOf("error") = <<>>
            /\ out = BroadcastEmit(rooms, conn, socketToRoom[c], c,
                       [BlankMsg EXCEPT !.ev = "draw.clear", !.requestId = RateRequest])

\* a sixth clear of a window, sent by a socket whose room has another member
C9_Witness ==
  /\ last.op = "draw.clear"
  /\ Len(clearLog[last.c].log) > CLEAR_RATE_LIMIT
  /\ socketToRoom[last.c] # None
  /\ BroadcastTargets(rooms, conn, socketToRoom[last.c], last.c) # <<>>

\* C10: a stroke over the threshold is dropped silently: the step emits no
\* event to anyone and leaves the socket's connection, registration and room
\* membership as they were
C10_ExcessStrokeDroppedSilently ==
  [][(last'.op = "draw.stroke" /\ last'.limited) =>
       /\ out' = <<>>
       /\ UNCHANGED <<conn, socketToUser, socketToRoom, rooms, binding, clearRateMap>>]_vars

\* a dropped stroke of a socket whose room has another member
C10_Witness ==
  /\ last.op = "draw.stroke" /\ last.limited
  /\ socketToRoom[last.c] # None
  /\ BroadcastTargets(rooms, conn, socketToRoom[last.c], last.c) # <<>>

\* the step has emitted exactly one error event, to socket c, and nothing else
OneErrorTo(c) == Len(out) = 1 /\ out[1].ev = "error" /\ out[1].to = c

\* C11 (as claimed): every stroke handled for a socket that has no room yields
\* an error to that socket and no draw.stroke to anyone, however many strokes
\* the socket has sent before
C11_StrokeOutsideRoomYieldsError ==
  (last.op = "draw.stroke" /\ socketToRoom[last.c] = None)
    => OneErrorTo(last.c) /\ OutOf("draw.stroke") = <<>>

\* C11 (amended): every stroke that the limiter admits for a socket that has
\* no room yields exactly one error (status 403) to that socket and no
\* draw.stroke to anyone; a stroke over the limit yields nothing at all
C11_AdmittedStrokeOutsideRoomYieldsError ==
  (last.op = "draw.stroke" /\ socketToRoom[last.c] = None)
    => /\ OutOf("draw.stroke") = <<>>
       /\ ~last.limited => (OneErrorTo(last.c) /\ out[1].status = 403)
       /\ last.limited => out = <<>>

\* an admitted stroke, not the first of its window, of a socket without a room
\* while the watcher is a member of the room the stroke names
C11_Witness ==
  /\ last.op = "draw.stroke" /\ ~last.limited
  /\ socketToRoom[last.c] = None
  /\ Len(strokeLog[last.c].log) > 1
  /\ OneErrorTo(last.c)
  /\ Watcher \in Range(rooms[buildRoomId(RateRequest)])

\* the events of a sequence of events that are addressed to socket c
SentTo(evs, c) == SelectSeq(evs, LAMBDA m : m.to = c)

\* C12: A and then B (different identities) join room R one after the other:
\* A's chat.joined has peers = [], B's chat.joined has peers = [A's identity],
\* A gets one draw.peer.joined naming B, and when A disconnects B gets one
\* draw.peer.left naming A
C12_JoinScenario ==
  [][ /\ (last'.op = "chat.joined" /\ last'.pre = {} /\ conn[last'.c] = "open")
           => /\ Len(OutOf("chat.joined")') = 1
              /\ OutOf("chat.joined")'[1].to = last'.c
              /\ OutOf("chat.joined")'[1].peers = <<>>
      /\ \A a \in Conns : \A b \in Conns : \A R \in RoomIds :
           ( /\ UserOf(a) # UserOf(b)
             /\ last'.op = "chat.joined" /\ last'.c = b
             /\ rooms[R] = <<a, b>> /\ socketToRoom[a] = R /\ socketToRoom[b] = R
             /\ conn[a] = "open" /\ conn[b] = "open" )
           => /\ Len(OutOf("chat.joined")') = 1
              /\ OutOf("chat.joined")'[1].to = b
              /\ OutOf("chat.joined")'[1].roomId = R
              /\ OutOf("chat.joined")'[1].peers = <<UserOf(a)>>
              /\ SentTo(OutOf("draw.peer.joined")', a) =
                   <<[BlankMsg EXCEPT !.to = a, !.ev = "draw.peer.joined", !.userId = UserOf(b)]>>
      /\ \A a \in Conns : \A b \in Conns : \A R \in RoomIds :
           ( /\ UserOf(a) # UserOf(b)
             /\ conn[a] = "open" /\ conn'[a] = "closed"
             /\ socketToRoom[a] = R /\ socketToRoom[b] = R
             /\ a \in Range(rooms[R]) /\ b \in Range(rooms[R])
             /\ conn[b] = "open" )
           => SentTo(out', b) =
                <<[BlankMsg EXCEPT !.to = b, !.ev = "draw.peer.left", !.userId = UserOf(a)]>>
    ]_vars

\* B's join has just completed after A's: B is confirmed with peers = [A's
\* identity] and A is sent the draw.peer.joined naming B
C12_Witness ==
  \E a \in Conns : \E b \in Conns : \E R \in RoomIds :
    /\ UserOf(a) # UserOf(b)
    /\ last.op = "chat.joined" /\ last.c = b /\ last.pre = {UserOf(a)}
    /\ conn[a] = "open" /\ conn[b] = "open"
    /\ rooms[R] = <<a, b>> /\ Settled(a) /\ Settled(b)
    /\ told[a][b] = 1 /\ told[b][a] = 1
    /\ Len(out) = 2 /\ out[1].peers = <<UserOf(a)>> /\ out[2].to = a

\* C13: handshakes that fail for different reasons are indistinguishable: each
\* makes exactly the step the handshake without a credential makes, which is
\* one error event {message: 'Unauthorized'} to the client, delivered before
\* the socket is closed, and nothing registered
C13_RejectionsIndistinguishable ==
  [][\A c \in Conns :
       (conn[c] = "new" /\ conn'[c] # "new") =>
         \A h \in Rejected :
           /\ handshake(c, h) <=> handshake(c, [auth |-> "undefined", header |-> "undefined",
                                                   query |-> "undefined"])
           /\ handshake(c, h) =>
                /\ out' = <<[BlankMsg EXCEPT !.to = c, !.ev = "error",
                                             !.message = "Unauthorized"]>>
                /\ conn'[c] = "closed"
                /\ socketToUser'[c] = None
                /\ redisQ' = redisQ /\ binding' = binding
                /\ \A x \in Conns \ {c} : conn'[x] = conn[x]
    ]_vars

\* a handshake has just been rejected while another socket is connected
C13_Witness ==
  \E c \in Conns :
    /\ conn[c] = "closed" /\ connH[c] = "done" /\ socketToUser[c] = None
    /\ out = <<[BlankMsg EXCEPT !.to = c, !.ev = "error", !.message = "Unauthorized"]>>
    /\ \E x \in Conns \ {c} : conn[x] = "open"

\* C14: the step that handles a denied chat.join changes nothing of the
\* gateway (connections, registrations, recorded rooms, room members,
\* counters, binding), emits no draw.peer.left and no draw.peer.joined, and
\* sends the caller, whose connection stays open, exactly one error event.
\* Room authorization has to deny the request to the user when there is no
\* such request, the user is neither its sender nor its recipient, or it is
\* not ACCEPTED
C14_DeniedJoinChangesNothing ==
  [][\A c \in Conns : \A i \in 1..MaxInflight :
      LET Denied(requestId, userId) ==
            \/ requestId \notin DOMAIN ChatRequests
            \/ /\ requestId \in DOMAIN ChatRequests
               /\ \/ userId \notin {ChatRequests[requestId].fromUserId,
                                     ChatRequests[requestId].toUserId}
                  \/ ChatRequests[requestId].status # "ACCEPTED"
      IN
       ( /\ i <= Len(joinH[c])
         /\ joinH[c][i].pc = "auth"
         /\ Denied(joinH[c][i].requestId, joinH[c][i].userId)
         /\ joinChatResolved(c, i) )
       => /\ UNCHANGED <<conn, socketToUser, socketToRoom, rooms, binding,
                         strokeRateMap, clearRateMap, redisQ>>
          /\ joinH'[c] = RemoveAt(joinH[c], i)
          /\ OutOf("draw.peer.left")' = <<>> /\ OutOf("draw.peer.joined")' = <<>>
          /\ OutOf("chat.joined")' = <<>>
          /\ conn[c] = "open" =>
               /\ Len(out') = 1 /\ out'[1].ev = "error" /\ out'[1].to = c
               /\ out'[1].message # None /\ out'[1].status \in {403, 404}
    ]_vars

\* a member of a room with a peer has just been refused another room: it got
\* the error and is where it was
C14_Witness ==
  \E c \in Conns :
    /\ conn[c] = "open" /\ Settled(c)
    /\ socketToRoom[c] # None /\ RoomsOf(c) = {socketToRoom[c]}
    /\ BroadcastTargets(rooms, conn, socketToRoom[c], c) # <<>>
    /\ Len(out) = 1 /\ out[1].ev = "error" /\ out[1].to = c
    /\ out[1].status \in {403, 404}

\* C15: a member of room A that joins room B # A has left A, and every
\* remaining member of A is sent exactly one draw.peer.left naming it, before
\* it is added to B; when the join completes it is a member of B and not of A
C15_SwitchLeavesThenJoins ==
  [][\A c \in Conns : \A i \in 1..MaxInflight :
      \* handler i of socket c is a chat.join that found c recorded in a room
      \* other than the one asked for, and stands at position pc
      LET Switching(x, j, pc) ==
            /\ j <= Len(joinH[x])
            /\ joinH[x][j].pc = pc
            /\ joinH[x][j].prevRoom # None
            /\ joinH[x][j].prevRoom # joinH[x][j].roomId
      IN
       /\ (Switching(c, i, "leave") /\ joinChatLeft(c, i) /\ conn[c] = "open")
            => /\ c \notin Range(rooms[joinH[c][i].prevRoom])
               /\ c \notin Range(rooms[joinH[c][i].roomId])
               /\ \A m \in Range(rooms[joinH[c][i].prevRoom]) :
                    conn[m] = "open" =>
                      SentTo(out', m) = <<[BlankMsg EXCEPT !.to = m, !.ev = "draw.peer.left",
                                                           !.userId = UserOf(c)]>>
               /\ c \in Range(rooms'[joinH[c][i].roomId])
       /\ (Switching(c, i, "sockets") /\ joinChatSockets(c, i) /\ conn[c] = "open")
            => /\ c \in Range(rooms'[joinH[c][i].roomId])
               /\ c \notin Range(rooms'[joinH[c][i].prevRoom])
    ]_vars

\* the sockets other than c that are members of room R and connected
OtherMembers(R, c) == {m \in Range(rooms[R]) : m # c /\ conn[m] = "open"}

\* C16: an admitted draw.stroke or draw.clear of a connection in room R is
\* delivered once to every other member of R and to no one else: not to the
\* sender, not to a socket outside R, whatever requestId the payload carries
C16_RelayReachesExactlyTheRoom ==
  \A R \in RoomIds :
    ( /\ last.op \in {"draw.stroke", "draw.clear"} /\ ~last.limited
      /\ socketToRoom[last.c] = R /\ last.c \in Range(rooms[R]) )
    => /\ {out[k].to : k \in 1..Len(out)} = OtherMembers(R, last.c)
       /\ Len(out) = Cardinality(OtherMembers(R, last.c))
       /\ \A k \in 1..Len(out) : out[k].ev = last.op

\* a stroke or clear whose payload names the request of another room has just
\* been relayed to the sender's peer while a third socket sits in that other room
C16_Witness ==
  \E R \in RoomIds : \E Q \in RoomIds \ {R} :
    /\ last.op \in {"draw.stroke", "draw.clear"} /\ ~last.limited
    /\ socketToRoom[last.c] = R /\ last.c \in Range(rooms[R])
    /\ Len(out) = 1 /\ out[1].to \in OtherMembers(R, last.c)
    /\ buildRoomId(out[1].requestId) = Q
    /\ OtherMembers(Q, last.c) # {}

\* C17: with Redis configured and unreachable, a chat.join of an authenticated
\* and authorized socket completes locally: when its handler ends the socket
\* is in the room and has been sent chat.joined with the identities of the
\* members on its process, each of which has been sent draw.peer.joined; and
\* no handler ends by an exception that nobody catches
C17_JoinCompletesWithoutStore ==
  [][ /\ escaped' = {}
      /\ \A c \in Conns : \A i \in 1..MaxInflight :
           ( /\ i <= Len(joinH[c]) /\ joinH[c][i].pc = "sockets" /\ conn[c] = "open"
             /\ joinChatSockets(c, i) \/ joinChatSocketsFailed(c, i) )
           => /\ c \in Range(rooms'[joinH[c][i].roomId])
              /\ OutOf("error")' = <<>>
              /\ SentTo(OutOf("chat.joined")', c) =
                   <<[BlankMsg EXCEPT !.to = c, !.ev = "chat.joined",
                                      !.roomId = joinH[c][i].roomId,
                                      !.requestId = joinH[c][i].requestId,
                                      !.peers = Peers(c, joinH[c][i].roomSockets)]>>
              /\ \A m \in OtherMembers(joinH[c][i].roomId, c) :
                   SentTo(OutOf("draw.peer.joined")', m) # <<>>
    ]_vars

\* C18: a step that handles a client event reports a failure by exactly one
\* error event that carries a message and a status code, and no call of a
\* handler, handleConnection and handleDisconnect with a failing store call
\* included, has ended by an exception that nobody caught
C18_FailuresReportedNeverEscape ==
  /\ Len(OutOf("error")) <= 1
  /\ \A k \in 1..Len(out) :
       out[k].ev = "error" => (out[k].message # None /\ out[k].status # 0)
  /\ escaped = {}

\* C19: members of one room spread over two processes see the presence
\* events of a single process: the chat.joined of a joiner lists the identity
\* of every member that was in the room before it, those connected to the
\* other process included, and each of them is sent the joiner's
\* draw.peer.joined
C19_PresenceAcrossProcesses ==
  (last.op = "chat.joined" /\ socketToRoom[last.c] # None) =>
    \A m \in OtherMembers(socketToRoom[last.c], last.c) :
      /\ \A k \in 1..Len(out) :
           out[k].ev = "chat.joined" => UserOf(m) \in Range(out[k].peers)
      /\ SentTo(OutOf("draw.peer.joined"), m) =
           <<[BlankMsg EXCEPT !.to = m, !.ev = "draw.peer.joined",
                              !.userId = UserOf(last.c)]>>

\* C20: under any interleaving of respondToRequest and cancelRequest calls the
\* status of a chat request changes at most once, from PENDING to ACCEPTED or
\* REJECTED and only by a respond of its recipient; a respond that fails
\* leaves the table as it was; and a row is removed only by its sender while
\* its status is PENDING
C20_RequestResolvedOnce ==
  /\ \A i \in 1..Len(writes) :
       LET w == writes[i] IN
         /\ (w.op = "save" /\ w.from # w.to) =>
              /\ w.from = "PENDING"
              /\ w.to \in {"ACCEPTED", "REJECTED"}
              /\ w.by = ChatRequests[w.requestId].toUserId
         /\ (w.op = "remove" /\ w.from # "absent") =>
              /\ w.from = "PENDING"
              /\ w.by = ChatRequests[w.requestId].fromUserId
  /\ \A i, j \in 1..Len(writes) :
       (/\ writes[i].op = "save" /\ writes[i].from # writes[i].to
        /\ writes[j].op = "save" /\ writes[j].from # writes[j].to
        /\ writes[i].requestId = writes[j].requestId) => i = j
  /\ \A k \in 1..Len(calls) :
       LET h == calls[k] IN
         (/\ h.op = "respondToRequest"
          /\ h.requestId \in DOMAIN ChatRequests
          /\ \/ h.userId # ChatRequests[h.requestId].toUserId
             \/ h.seen # "PENDING")
           => /\ h.result \in {400, 403, 404}
              /\ \A i \in 1..Len(writes) : writes[i].call # k

\* C21: there is at most one PENDING chat request for an ordered pair (sender,
\* recipient), and a createRequest made while one exists fails with an error
\* and stores nothing, also when createRequest calls of the pair run
\* concurrently
C21_OnePendingPerPair ==
  /\ \A a, b \in DOMAIN Accounts :
       Cardinality({id \in DOMAIN chatRequestRepository :
                      chatRequestRepository[id] =
                        [fromUserId |-> a, toUserId |-> b, status |-> "PENDING"]}) <= 1
  /\ \A k \in 1..Len(calls) :
       (calls[k].op = "createRequest" /\ calls[k].seen = "PENDING") =>
         /\ calls[k].result = 400
         /\ \A i \in 1..Len(writes) : writes[i].call # k

\* C22: saveChat is idempotent: the saveChat calls of one participant for one
\* accepted request, sequential or concurrent, leave exactly one SavedChat
\* record of the pair once one of them has completed, every completed call
\* returned a record, and at most one of them wrote
C22_SaveChatIdempotent ==
  \A r \in SavedRequests : \A u \in Users :
    LET mine == {k \in 1..Len(calls) :
                   /\ calls[k].op = "saveChat" /\ calls[k].requestId = r
                   /\ calls[k].userId = u
                   /\ saveChatChecks(ChatRequests, r, u) = 0}
        finished == {k \in mine : calls[k].pc = "done"}
    IN  /\ Cardinality(SavedRows(savedChatsRepository, r, u)) <= 1
        /\ finished # {} => Cardinality(SavedRows(savedChatsRepository, r, u)) = 1
        /\ \A k \in finished : calls[k].result \in {200, 201}
        /\ Cardinality({i \in 1..Len(writes) : writes[i].call \in mine}) <= 1

\* C23 as stated: the credential is the one of the first channel, in the
\* order auth field, header, query, that carries a credential; the handshake
\* is authenticated as the socket's user exactly when that one is valid (a
\* channel carries a credential when it holds anything but nothing or the
\* empty string)
C23_FirstCarriedCredentialDecides ==
  [][\A c \in RateConns : \A h \in Handshakes :
       handshakeNoted(c, h) =>
         LET Carries(v) == v \notin {"undefined", "empty"}
             first == IF Carries(h.auth) THEN h.auth
                      ELSE IF Carries(h.header) THEN h.header
                      ELSE h.query
         IN  (conn'[c] = "open" /\ socketToUser'[c] = UserOf(c)) <=> first = "valid"
    ]_vars

\* C23 (amended): the credential is the one of the first channel, in the
\* order auth field, header, query, that is present (neither null nor
\* undefined); a channel that is present but empty is not skipped. The
\* handshake is authenticated as the socket's user exactly when that
\* credential is valid
C23_FirstPresentChannelDecides ==
  [][\A c \in RateConns : \A h \in Handshakes :
       handshakeNoted(c, h) =>
         LET first == IF h.auth # "undefined" THEN h.auth
                      ELSE IF h.header # "undefined" THEN h.header
                      ELSE h.query
         IN  (conn'[c] = "open" /\ socketToUser'[c] = UserOf(c)) <=> first = "valid"
    ]_vars

\* a socket was authenticated by the credential of its query parameter, the
\* two earlier channels being absent, while another socket was authenticated
\* by its header
C23_Witness ==
  /\ last.op = HandshakeName([auth |-> "undefined", header |-> "undefined",
                              query |-> "valid"])
  /\ conn[last.c] = "open"
  /\ socketToUser[last.c] = UserOf(last.c)
  /\ \E x \in RateConns \ {last.c} : conn[x] = "open"

\* C24: a leave (draw.leave or handleDisconnect) of a connection that is a
\* member of room R removes it from R and delivers exactly one draw.peer.left
\* naming its identity to each remaining member of R and none to itself; a
\* leave of a connection that is in no room emits no draw.peer.left; and a
\* relayed draw.stroke or draw.clear reaches only current members of a room
C24_LeaveNotifiesRemainingMembers ==
  [][ /\ \A c \in Conns :
           (leaveChat(c) \/ handleDisconnect(c)) =>
             LET left == OutOf("draw.peer.left")' IN
               /\ \A R \in RoomIds : c \notin Range(rooms'[R])
               /\ SentTo(left, c) = <<>>
               /\ RoomsOf(c) = {} => left = <<>>
               /\ \A R \in RoomsOf(c) :
                    \A m \in Range(rooms'[R]) :
                      conn'[m] = "open" =>
                        SentTo(left, m) =
                          <<[BlankMsg EXCEPT !.to = m, !.ev = "draw.peer.left",
                                             !.userId = UserOf(c)]>>
      /\ \A k \in 1..Len(out') :
           out'[k].ev \in {"draw.stroke", "draw.clear"} =>
             out'[k].to \in Range(rooms'[socketToRoom'[last'.c]])
    ]_vars

\* C25: connect is last-writer-wins: every HSET of a connect makes the
\* binding of the identity name its socket, whatever it named before, and
\* once handleConnection(C) has completed the binding of its identity equals
\* C until a later connect of the identity or the disconnect of C (that is,
\* while c is connected, handleConnection(c) has completed, and every other
\* connect of c's identity had completed before handleConnection(c) began)
C25_ConnectIsLastWriterWins ==
  [][ /\ \A p \in Procs :
           hsetDone(p) =>
             binding'[UserOf(Head(redisQ[p])[2])] = Head(redisQ[p])[2]
      /\ \A c \in Conns :
           ( /\ redisOn'
             /\ conn'[c] = "open" /\ connH'[c] = "done"
             /\ \A x \in Conns :
                  (x # c /\ UserOf(x) = UserOf(c) /\ conn'[x] # "new")
                    => x \in estab'[c].doneBefore )
           => binding'[UserOf(c)] = c
    ]_vars

\* C26: a handshake that fails authentication changes nothing outside itself:
\* socketToUser, socketToRoom, both rate maps, the rooms and the identity
\* binding are as before and no event goes to another connection; and the
\* later handleDisconnect of the rejected connection emits nothing, sends no
\* command to the store and leaves all of these as they were
C26_RejectedHandshakeChangesNothing ==
  [][ /\ (conn[Intruder] = "new" /\ conn'[Intruder] # "new") =>
           \A h \in Rejected :
             handshake(Intruder, h) =>
               /\ UNCHANGED <<socketToUser, socketToRoom, strokeRateMap, clearRateMap,
                              rooms, binding, redisQ>>
               /\ \A k \in 1..Len(out') : out'[k].to = Intruder
               /\ \A x \in Conns \ {Intruder} : conn'[x] = conn[x]
      /\ (conn[Intruder] = "closed" /\ discH[Intruder] = "idle"
            /\ handleDisconnect(Intruder)) =>
             /\ UNCHANGED <<socketToUser, socketToRoom, strokeRateMap, clearRateMap,
                            rooms, binding, redisQ>>
             /\ out' = <<>>
             /\ discH'[Intruder] = "done"
    ]_vars

\* handleDisconnect has run for the rejected socket while the two clients sit
\* in the room and the store binds an identity to one of them
C26_Witness ==
  /\ conn[Intruder] = "closed" /\ discH[Intruder] = "done"
  /\ socketToUser[Intruder] = None
  /\ \A c \in RateConns : conn[c] = "open" /\ socketToRoom[c] = buildRoomId(RateRequest)
  /\ binding[UserOf(Intruder)] \in RateConns
  /\ {UserOf(c) : c \in RateConns} = Users

\* C27: the stroke counter and the clear counter are independent and per
\* connection: a draw.stroke changes no clear counter and no stroke counter of
\* another connection, a draw.clear changes no stroke counter and no clear
\* counter of another connection, and an event is dropped only when the
\* counter of its own class and connection is over its threshold
C27_CountersIndependent ==
  [][LET SameExceptFor(c, before, after) ==
           /\ DOMAIN before \ {c} = DOMAIN after \ {c}
           /\ \A x \in DOMAIN before \ {c} : after[x] = before[x]
     IN
      /\ last'.op = "draw.stroke" =>
           /\ clearRateMap' = clearRateMap
           /\ SameExceptFor(last'.c, strokeRateMap, strokeRateMap')
           /\ last'.limited => strokeRateMap'[last'.c].count > STROKE_RATE_LIMIT
      /\ last'.op = "draw.clear" =>
           /\ strokeRateMap' = strokeRateMap
           /\ SameExceptFor(last'.c, clearRateMap, clearRateMap')
           /\ last'.limited => clearRateMap'[last'.c].count > CLEAR_RATE_LIMIT
    ]_vars

\* the drawer is over both of its thresholds and a stroke of the watcher has
\* just been admitted and relayed to the drawer
C27_Witness ==
  /\ last.op = "draw.stroke" /\ last.c = Watcher /\ ~last.limited
  /\ Drawer \in DOMAIN strokeRateMap /\ strokeRateMap[Drawer].count > STROKE_RATE_LIMIT
  /\ Drawer \in DOMAIN clearRateMap /\ clearRateMap[Drawer].count > CLEAR_RATE_LIMIT
  /\ Len(out) = 1 /\ out[1].ev = "draw.stroke" /\ out[1].to = Drawer

\* C28: window reset is lazy and driven only by events: a stroke (resp. clear)
\* handled at least 1000 ms (resp. 5000 ms) after the window start of its
\* socket is admitted and relayed, sets the counter to 1 and the window start
\* to its own time, whatever the count of the window before; a step that
\* handles no stroke (resp. clear), the clock advancing included, changes no
\* stroke (resp. clear) counter and no window start
C28_LazyWindowReset ==
  [][ /\ last'.op = "draw.stroke" =>
           LET c == last'.c IN
             (c \in DOMAIN strokeRateMap
                /\ now - strokeRateMap[c].windowStart >= 1000) =>
               /\ ~last'.limited
               /\ strokeRateMap'[c] = [count |-> 1, windowStart |-> now]
               /\ \E k \in 1..Len(out') : out'[k].ev = "draw.stroke"
      /\ last'.op # "draw.stroke" => strokeRateMap' = strokeRateMap
      /\ last'.op = "draw.clear" =>
           LET c == last'.c IN
             (c \in DOMAIN clearRateMap
                /\ now - clearRateMap[c].windowStart >= 5000) =>
               /\ ~last'.limited
               /\ clearRateMap'[c] = [count |-> 1, windowStart |-> now]
               /\ \E k \in 1..Len(out') : out'[k].ev = "draw.clear"
      /\ last'.op # "draw.clear" => clearRateMap' = clearRateMap
    ]_vars

\* a clear has just opened a new window after a window in which a clear was
\* refused, and the stroke window before the current one had refused strokes
C28_Witness ==
  /\ last.op = "draw.clear" /\ last.c = Drawer /\ ~last.limited
  /\ clearLog[Drawer].shed
  /\ clearRateMap[Drawer] = [count |-> 1, windowStart |-> now]
  /\ now >= CLEAR_RATE_WINDOW_MS
  /\ strokeLog[Drawer].shed
  /\ strokeRateMap[Drawer].windowStart >= STROKE_RATE_WINDOW_MS
  /\ Len(out) = 1 /\ out[1].ev = "draw.clear" /\ out[1].to = Watcher

\* C29: for every connection and both event classes the rate counter is never
\* negative (the maps are empty at the start, so every later entry is the
\* result of a step), every event of the open window adds exactly one to it, admitted
\* or dropped, no other step changes it, and it returns to 1 only when an
\* event opens a new window. One step may change the rate entry of a socket
\* not at all when it handles no event of the socket, and when it handles one
\* either by adding one to the count of the open window (a missing entry
\* counts as zero, its window starting now) or by opening a new window with
\* count 1 once the old one has lasted `window` milliseconds
C29_CountersMonotonic ==
  [][\A c \in Conns :
     LET CounterStep(before, after, x, window, event) ==
        IF ~event
          THEN (x \in DOMAIN after <=> x \in DOMAIN before)
               /\ (x \in DOMAIN before => after[x] = before[x])
          ELSE /\ x \in DOMAIN after
               /\ \/ /\ after[x].count = (IF x \in DOMAIN before THEN before[x].count ELSE 0) + 1
                     /\ after[x].windowStart =
                          (IF x \in DOMAIN before THEN before[x].windowStart ELSE now)
                     /\ now - after[x].windowStart < window
                  \/ /\ x \in DOMAIN before
                     /\ now - before[x].windowStart >= window
                     /\ after[x] = [count |-> 1, windowStart |-> now]
     IN
       /\ c \in DOMAIN strokeRateMap' => strokeRateMap'[c].count >= 0
       /\ c \in DOMAIN clearRateMap' => clearRateMap'[c].count >= 0
       /\ CounterStep(strokeRateMap, strokeRateMap', c, STROKE_RATE_WINDOW_MS,
                      last'.op = "draw.stroke" /\ last'.c = c)
       /\ CounterStep(clearRateMap, clearRateMap', c, CLEAR_RATE_WINDOW_MS,
                      last'.op = "draw.clear" /\ last'.c = c)
    ]_vars

\* both counters of the drawer stand two over their thresholds, the last
\* stroke having been dropped
C29_Witness ==
  /\ last.op = "draw.stroke" /\ last.c = Drawer /\ last.limited
  /\ strokeRateMap[Drawer].count = STROKE_RATE_LIMIT + 2
  /\ Drawer \in DOMAIN clearRateMap
  /\ clearRateMap[Drawer].count = CLEAR_RATE_LIMIT + 2

\* C30: without Redis, a notification that notifyChatRequested or
\* notifyChatResponse addresses to a user is emitted to the socket that the
\* user's latest handleConnection registered, whenever the user has an open one
C30_LocalNotificationDelivered ==
  [][\A k \in 1..Len(calls) :
       (calls[k].pc = "notify" /\ calls'[k].notify = Tail(calls[k].notify)) =>
         \A c \in Conns :
           (conn[c] = "open" /\ socketToUser[c] = Head(calls[k].notify)) =>
             \E i \in 1..Len(out') :
               out'[i].to = c /\ out'[i].ev = EventOf(calls[k].op)
    ]_vars

C32_RecordedRoomIsMembership ==
  \A c \in Conns :
    (conn[c] = "open" /\ Settled(c)) =>
      \A R \in RoomIds : socketToRoom[c] = R <=> c \in Range(rooms[R])

\* C33: presence is always withdrawn: a member b that was told that the
\* identity of socket a is present (told[b][a] > 0 when a disconnects) and
\* stays connected eventually receives a draw.peer.left naming that identity,
\* also when a disconnects while its chat.join is still in flight
C33_PresenceWithdrawn ==
  \A a \in RateConns : \A b \in RateConns \ {a} :
    (b \in estab[a].unnotified /\ conn[b] = "open")
      ~> \/ conn[b] # "open"
         \/ \E k \in 1..Len(out) :
              /\ out[k].to = b /\ out[k].ev = "draw.peer.left"
              /\ out[k].userId = UserOf(a)

\* C34: the peers list of a chat.joined event never contains the identity of
\* the joiner and never contains an identity twice
C34_PeersDistinctAndOther ==
  \A k \in 1..Len(out) :
    out[k].ev = "chat.joined" =>
      /\ UserOf(out[k].to) \notin Range(out[k].peers)
      /\ \A i, j \in 1..Len(out[k].peers) :
           out[k].peers[i] = out[k].peers[j] => i = j

\* C35: a chat.join that ends with an error event leaves the room membership,
\* socketToRoom and the presence seen by the other members as they were
\* before the request: a denial changes none of them, and a socket that
\* recorded no room and has no other join in flight is, after the error that
\* reports a failed membership query, in no room and has no room recorded
C35_FailedJoinLeavesNoTrace ==
  [][\A c \in Conns : \A i \in 1..MaxInflight :
       /\ ( /\ i <= Len(joinH[c]) /\ joinH[c][i].pc = "auth" /\ conn[c] = "open"
            /\ joinChatResolved(c, i)
            /\ OutOf("error")' # <<>> )
          => UNCHANGED <<rooms, socketToRoom, told>>
       /\ ( /\ Len(joinH[c]) = 1 /\ i = 1 /\ joinH[c][i].pc = "sockets"
            /\ joinH[c][i].prevRoom = None /\ conn[c] = "open"
            /\ joinChatSocketsFailed(c, i) )
          => /\ OutOf("error")' # <<>>
             /\ socketToRoom'[c] = None
             /\ c \notin Range(rooms'[joinH[c][i].roomId])
    ]_vars

C37_NeverReturnsDeleted ==
  \A i \in 1..Len(cacheH.got) :
     LET g == cacheH.got[i] IN
       /\ g.after.op = "del" => g.result = <<>>
       /\ g.after.op = "set" => g.result \in {<<>>, <<g.after.value>>}

============================================================================
